---- MODULE Spec2Model ----
(***************************************************************************)
(* A model of chatgpt-code-reviewer: the patch scanner                     *)
(* (getValidCommentLines), the budget gate and the interval-driven batch   *)
(* scheduler of CommentOnPullRequestService (addCommentToPr,               *)
(* addStructuredCommentToPr).                                              *)
(*                                                                         *)
(* A patch line is a tuple of characters, each a one-character string or,  *)
(* for a character that cannot be written so, its JavaScript escape        *)
(* ("\\u3000"), so that startsWith, trim and the two regular expressions    *)
(* are computed on the text.  A patch                                      *)
(* is the tuple of lines patch.split('\n') returns; TLA+ indexes it from   *)
(* 1, the source from 0 (source index = model index - 1).                  *)
(***************************************************************************)
EXTENDS Integers, Sequences, FiniteSets, TLC

\* ------------------------------------------------------------------ bounds

\* longest patch, in lines, the scanner is run on
MaxLines == 4

\* ------------------------------------------------------------ text helpers

Digits == {"0", "1", "2", "3", "4", "5", "6", "7", "8", "9"}

DigitVal == ("0" :> 0) @@ ("1" :> 1) @@ ("2" :> 2) @@ ("3" :> 3) @@ ("4" :> 4)
            @@ ("5" :> 5) @@ ("6" :> 6) @@ ("7" :> 7) @@ ("8" :> 8) @@ ("9" :> 9)

Lower == {"a", "b", "c", "d", "e", "f", "g", "h", "i", "j", "k", "l", "m",
          "n", "o", "p", "q", "r", "s", "t", "u", "v", "w", "x", "y", "z"}

Upper == {"A", "B", "C", "D", "E", "F", "G", "H", "I", "J", "K", "L", "M",
          "N", "O", "P", "Q", "R", "S", "T", "U", "V", "W", "X", "Y", "Z"}

\* the character class [a-zA-Z0-9\/\-_.] of the file-path pattern
PathChars == Lower \cup Upper \cup Digits \cup {"/", "-", "_", "."}

\* the extensions (php|js|ts|...|rs) of the file-path pattern
PathExts == { <<"p","h","p">>, <<"j","s">>, <<"t","s">>, <<"j","s","x">>,
              <<"t","s","x">>, <<"p","y">>, <<"j","a","v","a">>,
              <<"c","p","p">>, <<"c">>, <<"c","s","s">>,
              <<"h","t","m","l">>, <<"v","u","e">>, <<"r","b">>,
              <<"g","o">>, <<"r","s">> }

\* the characters String.prototype.trim removes: the white space and the
\* line terminators of ECMAScript.  A character that has no one-character
\* string here is written as its escape in a JavaScript string literal,
\* "\\u3000" for U+3000; a patch line holds such a name as one element, so
\* it is no line that spells a backslash, a "u" and four digits.
WhiteSpace ==
    {" ", "\t", "\n", "\r", "\f", "\\u000b", "\\u00a0", "\\u1680",
     "\\u2000", "\\u2001", "\\u2002", "\\u2003", "\\u2004", "\\u2005",
     "\\u2006", "\\u2007", "\\u2008", "\\u2009", "\\u200a",
     "\\u2028", "\\u2029", "\\u202f", "\\u205f", "\\u3000", "\\ufeff"}

\* the literal lit occurs in line l at position p
LitAt(l, p, lit) ==
    /\ p >= 1
    /\ p + Len(lit) - 1 <= Len(l)
    /\ SubSeq(l, p, p + Len(lit) - 1) = lit

\* String.prototype.startsWith
startsWith(l, prefix) == LitAt(l, 1, prefix)

\* trim() === ''
trimIsEmpty(l) == \A k \in 1..Len(l) : l[k] \in WhiteSpace

\* the index after the longest run of digits of l that starts at p (\d+ is
\* greedy and is followed by a non-digit literal in the header pattern)
RECURSIVE DigitsEnd(_, _)
DigitsEnd(l, p) ==
    IF p >= 1 /\ p <= Len(l) /\ l[p] \in Digits THEN DigitsEnd(l, p + 1) ELSE p

\* parseInt(digits, 10) of a non-empty run of digits
RECURSIVE parseInt(_)
parseInt(ds) ==
    IF Len(ds) = 0 THEN 0
    ELSE 10 * parseInt(SubSeq(ds, 1, Len(ds) - 1)) + DigitVal[ds[Len(ds)]]

\* line.match(/^@@ -\d+,\d+ \+(\d+),(\d+) @@/): the two captured groups, or
\* <<>> for null
lineHeaderRegExp(l) ==
    LET e1 == DigitsEnd(l, 5)
        e2 == DigitsEnd(l, e1 + 1)
        e3 == DigitsEnd(l, e2 + 2)
        e4 == DigitsEnd(l, e3 + 1)
    IN  IF /\ LitAt(l, 1, <<"@", "@", " ", "-">>)
           /\ e1 > 5
           /\ LitAt(l, e1, <<",">>)
           /\ e2 > e1 + 1
           /\ LitAt(l, e2, <<" ", "+">>)
           /\ e3 > e2 + 2
           /\ LitAt(l, e3, <<",">>)
           /\ e4 > e3 + 1
           /\ LitAt(l, e4, <<" ", "@", "@">>)
        THEN << SubSeq(l, e2 + 2, e3 - 1), SubSeq(l, e3 + 1, e4 - 1) >>
        ELSE << >>

\* patchLine.match(/^[a-zA-Z0-9\/\-_.]+\.(php|js|...|rs)$/)
isFilePathLine(l) ==
    \E ext \in PathExts :
        /\ Len(l) >= Len(ext) + 2
        /\ LitAt(l, Len(l) - Len(ext), <<".">> \o ext)
        /\ \A k \in 1..(Len(l) - Len(ext) - 1) : l[k] \in PathChars

\* patchLine.startsWith('+++') || patchLine.startsWith('---')
isFileHeader(l) ==
    startsWith(l, <<"+", "+", "+">>) \/ startsWith(l, <<"-", "-", "-">>)

\* ------------------------------------------------- getValidCommentLines

\* classifyLine with an empty line pushed as a context record
classifyLineEmptyIsContext(lines, j) ==
    LET patchLine == lines[j] IN
    IF startsWith(patchLine, <<"+">>)
    THEN [emit |-> "added", inc |-> 1]
    ELSE IF startsWith(patchLine, <<"-">>)
    THEN IF j + 1 <= Len(lines) /\ startsWith(lines[j + 1], <<"+">>)
         THEN [emit |-> "modified", inc |-> 0]
         ELSE [emit |-> "none", inc |-> 0]
    ELSE IF startsWith(patchLine, <<" ">>) \/ trimIsEmpty(patchLine)
    THEN [emit |-> "context", inc |-> 1]
    ELSE [emit |-> "none", inc |-> 0]

\* classifyLine with the increment after a context record left out
classifyLineContextStays(lines, j) ==
    LET patchLine == lines[j] IN
    IF startsWith(patchLine, <<"+">>)
    THEN [emit |-> "added", inc |-> 1]
    ELSE IF startsWith(patchLine, <<"-">>)
    THEN IF j + 1 <= Len(lines) /\ startsWith(lines[j + 1], <<"+">>)
         THEN [emit |-> "modified", inc |-> 0]
         ELSE [emit |-> "none", inc |-> 0]
    ELSE IF startsWith(patchLine, <<" ">>)
    THEN [emit |-> "context", inc |-> 0]
    ELSE IF trimIsEmpty(patchLine)
    THEN [emit |-> "none", inc |-> 1]
    ELSE [emit |-> "none", inc |-> 0]

\* the branches of one inner iteration that classify a body line: the record
\* type pushed ("none": nothing pushed) and the increment of
\* currentNewLineNumber
classifyLine(lines, j) ==
    LET patchLine == lines[j] IN
    IF startsWith(patchLine, <<"+">>)
    THEN [emit |-> "added", inc |-> 1]
    ELSE IF startsWith(patchLine, <<"-">>)
    THEN IF j + 1 <= Len(lines) /\ startsWith(lines[j + 1], <<"+">>)
         THEN [emit |-> "modified", inc |-> 0]
         ELSE [emit |-> "none", inc |-> 0]
    ELSE IF startsWith(patchLine, <<" ">>)
    THEN [emit |-> "context", inc |-> 1]
    ELSE IF trimIsEmpty(patchLine)
    THEN [emit |-> "none", inc |-> 1]
    ELSE [emit |-> "none", inc |-> 0]

\* stopsSection without the stop at the next patch header: the inner loop
\* runs on through the later sections
stopsSectionFilePathOnly(patchLine) ==
    ~isFileHeader(patchLine) /\ isFilePathLine(patchLine)

\* stopsSection that takes only a valid header for the next patch header
stopsSectionValidOnly(patchLine) ==
    \/ lineHeaderRegExp(patchLine) # << >>
    \/ ~isFileHeader(patchLine) /\ isFilePathLine(patchLine)

\* the inner loop stops the section at this line: the next patch header or
\* what looks like a new file path
stopsSection(patchLine) ==
    \/ startsWith(patchLine, <<"@", "@">>)
    \/ ~isFileHeader(patchLine) /\ isFilePathLine(patchLine)

\* validLines.push(...) when the branch pushes a record
pushLine(validLines, cl, cur) ==
    IF cl.emit = "none" THEN validLines
    ELSE Append(validLines, [lineNumber |-> cur, type |-> cl.emit])

\* the inner loop "for (let j = i + 1; ...)" from index j on, in the section
\* whose header is at hdr.  acc holds validLines, and as a record of the run:
\* steps, one entry per inner iteration (the line visited, the header of its
\* section, the counter before and after, what was pushed), and i, the outer
\* cursor as the inner loop leaves it.
RECURSIVE innerLoop(_, _, _, _, _)
innerLoop(lines, hdr, j, cur, acc) ==
    IF j > Len(lines) THEN acc
    ELSE IF stopsSection(lines[j])
    THEN [acc EXCEPT !.i = j - 1,
                     !.steps = Append(@, [at |-> j, hunk |-> hdr, before |-> cur,
                                          after |-> cur, emit |-> "stop"])]
    ELSE IF isFileHeader(lines[j])
    THEN innerLoop(lines, hdr, j + 1, cur,
             [acc EXCEPT !.steps = Append(@, [at |-> j, hunk |-> hdr, before |-> cur,
                                              after |-> cur, emit |-> "skip"])])
    ELSE LET cl == classifyLine(lines, j) IN
         innerLoop(lines, hdr, j + 1, cur + cl.inc,
             [acc EXCEPT !.validLines = pushLine(@, cl, cur),
                         !.steps = Append(@, [at |-> j, hunk |-> hdr, before |-> cur,
                                              after |-> cur + cl.inc,
                                              emit |-> cl.emit])])

\* afterSection as the earlier variant had it: "break; // Process only the
\* first patch section for now"
afterSectionBreak(lines, i) == Len(lines) + 1

\* where the outer loop goes on after a section: the code does not break,
\* so the next iteration is at i + 1, i as the inner loop left it
afterSection(lines, i) == i + 1

\* outerLoop with a record pushed for the header itself, at its newStart
RECURSIVE outerLoopHeaderRecord(_, _, _)
outerLoopHeaderRecord(lines, i, acc) ==
    IF i > Len(lines) THEN acc
    ELSE LET m == lineHeaderRegExp(lines[i])
             seen == [acc EXCEPT !.outer = Append(@, i), !.i = i]
         IN  IF m # << >>
             THEN LET r == innerLoop(lines, i, i + 1, parseInt(m[1]),
                               [seen EXCEPT !.validLines =
                                   Append(@, [lineNumber |-> parseInt(m[1]),
                                              type |-> "context"])])
                  IN  outerLoopHeaderRecord(lines, afterSection(lines, r.i), r)
             ELSE outerLoopHeaderRecord(lines, i + 1, seen)

\* the outer loop "for (let i = 0; ...)" from index i on; outer records the
\* cursor of every outer iteration
RECURSIVE outerLoop(_, _, _)
outerLoop(lines, i, acc) ==
    IF i > Len(lines) THEN acc
    ELSE LET m == lineHeaderRegExp(lines[i])
             seen == [acc EXCEPT !.outer = Append(@, i), !.i = i]
         IN  IF m # << >>
             THEN LET r == innerLoop(lines, i, i + 1, parseInt(m[1]), seen)
                  IN  outerLoop(lines, afterSection(lines, r.i), r)
             ELSE outerLoop(lines, i + 1, seen)

\* the whole scan of a patch, with its record
scanPatch(lines) ==
    outerLoop(lines, 1, [validLines |-> << >>, steps |-> << >>,
                         outer |-> << >>, i |-> 0])

getValidCommentLines(lines) == scanPatch(lines).validLines

\* ------------------------------------------------------- patches scanned

\* "@@ -1,3 +1,4 @@"
HeaderA == <<"@","@"," ","-","1",",","3"," ","+","1",",","4"," ","@","@">>
\* "@@ -10,4 +10,4 @@"
HeaderB == <<"@","@"," ","-","1","0",",","4"," ","+","1","0",",","4"," ","@","@">>
\* "@@ x": starts like a header and fails the numeric pattern
HeaderBad == <<"@","@"," ","x">>
\* "+a", "-b", " c", "" and "\"
AddedLine == <<"+","a">>
RemovedLine == <<"-","b">>
ContextLine == <<" ","c">>
EmptyLine == << >>
\* a line of white space that does not start with a space: a tab and an
\* ideographic space (U+3000)
BlankLine == <<"\t", "\\u3000">>
OtherLine == <<"\\">>
\* "+++ b" and "--- a"
NewFileHeader == <<"+","+","+"," ","b">>
OldFileHeader == <<"-","-","-"," ","a">>
\* "a.ts"
FilePathLine == <<"a",".","t","s">>

PatchLines == { HeaderA, HeaderB, HeaderBad, AddedLine, RemovedLine,
                ContextLine, EmptyLine, BlankLine, OtherLine, NewFileHeader,
                OldFileHeader, FilePathLine }

\* split('\n') returns at least one line
Patches == UNION { [1..n -> PatchLines] : n \in 1..MaxLines }

NoScan == [validLines |-> << >>, steps |-> << >>, outer |-> << >>, i |-> 0]

\* ------------------------------------------- the budget gate and batching

\* MAX_TOKENS when the max_tokens input is absent or not a number
DEFAULT_MAX_TOKENS == 4096

\* parseInt(getInput('max_tokens'), 10) || 4096; input 0 stands for every
\* input parseInt turns into NaN or 0
maxTokensOf(input) == IF input = 0 THEN DEFAULT_MAX_TOKENS ELSE input

\* isIncludedRegular with "<" for "<="
isIncludedRegularStrict(file, maxTok) == file.hasPatch /\ 2 * file.tokens < maxTok

\* addCommentToPr: file.patch && fileTokens <= tokenLimit, tokenLimit being
\* MAX_TOKENS / 2 (a division that is not rounded)
isIncludedRegular(file, maxTok) == file.hasPatch /\ 2 * file.tokens <= maxTok

\* addStructuredCommentToPr: a file without patch is passed over, ...
isPassedOverStructured(file) == ~file.hasPatch

\* ... and one with a patch is included when fileTokens <= MAX_TOKENS / 3
isIncludedStructured(file, maxTok) == file.hasPatch /\ 3 * file.tokens <= maxTok

\* the filenames of a list of files
RECURSIVE namesOf(_)
namesOf(fs) ==
    IF fs = << >> THEN << >> ELSE << fs[1].filename >> \o namesOf(Tail(fs))

\* the loop "for (const file of files)" of addCommentToPr: the else branch
\* takes every file that is not included
gateRegular(fs, maxTok) ==
    [ patchesList |-> SelectSeq(fs, LAMBDA f : isIncludedRegular(f, maxTok)),
      filesTooLongToBeChecked |->
          namesOf(SelectSeq(fs, LAMBDA f : ~isIncludedRegular(f, maxTok))) ]

\* the loop "for (const file of files)" of addStructuredCommentToPr
gateStructured(fs, maxTok) ==
    [ allPatches |-> SelectSeq(fs, LAMBDA f : isIncludedStructured(f, maxTok)),
      filesTooLongToBeChecked |->
          namesOf(SelectSeq(fs, LAMBDA f :
              ~isPassedOverStructured(f) /\ ~isIncludedStructured(f, maxTok))) ]

\* the sum of tokensUsed of a list of files
RECURSIVE totalTokens(_)
totalTokens(fs) ==
    IF fs = << >> THEN 0 ELSE fs[1].tokens + totalTokens(Tail(fs))

\* packFiles with the capacity test left out: every file joins the current
\* batch
RECURSIVE packFilesNoLimit(_, _, _, _)
packFilesNoLimit(fs, maxTok, current, result) ==
    IF fs = << >>
    THEN IF current = << >> THEN result ELSE Append(result, current)
    ELSE packFilesNoLimit(Tail(fs), maxTok, Append(current, fs[1]), result)

\* packFiles with the file that does not fit left out of the batch it opens
RECURSIVE packFilesDropsOverflow(_, _, _, _)
packFilesDropsOverflow(fs, maxTok, current, result) ==
    IF fs = << >>
    THEN IF current = << >> THEN result ELSE Append(result, current)
    ELSE IF 2 * (totalTokens(current) + fs[1].tokens) <= maxTok
    THEN packFilesDropsOverflow(Tail(fs), maxTok, Append(current, fs[1]), result)
    ELSE packFilesDropsOverflow(Tail(fs), maxTok, << >>,
                   IF current = << >> THEN result ELSE Append(result, current))

\* divideFilesByTokenRange(MAX_TOKENS / 2, patchesList): greedy packing in
\* input order; a file joins the current batch when the batch's total plus
\* its tokens is at most the range, else it starts the next batch
RECURSIVE packFiles(_, _, _, _)
packFiles(fs, maxTok, current, result) ==
    IF fs = << >>
    THEN IF current = << >> THEN result ELSE Append(result, current)
    ELSE IF 2 * (totalTokens(current) + fs[1].tokens) <= maxTok
    THEN packFiles(Tail(fs), maxTok, Append(current, fs[1]), result)
    ELSE packFiles(Tail(fs), maxTok, << fs[1] >>,
                   IF current = << >> THEN result ELSE Append(result, current))

divideFilesByTokenRange(maxTok, fs) == packFiles(fs, maxTok, << >>, << >>)

\* createSkippedFilesComment: const tokenLimit = Math.floor(MAX_TOKENS / 2),
\* the limit its comment body states
statedTokenLimit(maxTok) == maxTok \div 2

\* surfacesNotice without the SHOW_SKIPPED_FILES_COMMENT test
surfacesNoticeAlways(tooLong, show) == Len(tooLong) > 0

\* filesTooLongToBeChecked.length > 0 && SHOW_SKIPPED_FILES_COMMENT
surfacesNotice(tooLong, show) == Len(tooLong) > 0 /\ show

\* ------------------------------------------- getStructuredOpenAiReview

\* a line comment and a file review of a structured response
LineCommentOf(n, sev) ==
    [line_number |-> n, severity |-> sev, category |-> "bug", comment |-> "given"]

FileReviewOf(name, comments) == [filename |-> name, line_comments |-> comments]

\* the file_reviews field of a parsed response: an array, missing, or a
\* value that is not an array
ArrayOf(items) == [is |-> "array", items |-> items]
MissingReviews == [is |-> "missing", items |-> << >>]
\* a value that is not an array has the length n it answers to .length
\* with: that of a string or of an object with a length, and 0 for a value
\* without one ({}, 5, true)
NotArrayReviews(n) == [is |-> "other", items |-> << >>, length |-> n]

\* structuredReview.file_reviews?.length || 0
fileReviewsLength(reviews) ==
    IF reviews.is = "array" THEN Len(reviews.items)
    ELSE IF reviews.is = "other" THEN reviews.length
    ELSE 0

\* an overall_review: one the response gave, the two the code substitutes,
\* and undefined
GivenOverall ==
    [summary |-> "given", recommendation |-> "APPROVE",
     issues_count |-> 1, quality_score |-> 8]

FallbackOverall ==
    [summary |-> "Failed to parse structured response, falling back to basic review",
     recommendation |-> "COMMENT", issues_count |-> 0, quality_score |-> 5]

AddedOverall(count) ==
    [summary |-> "Review completed", recommendation |-> "COMMENT",
     issues_count |-> count, quality_score |-> 7]

UndefinedOverall ==
    [summary |-> "undefined", recommendation |-> "undefined",
     issues_count |-> 0, quality_score |-> 0]

\* the file review of the fallback: the raw response, or "No response
\* received", as one comment on line 1 of file "unknown"
FallbackFileReview(raw) ==
    [filename |-> "unknown",
     line_comments |-> << [line_number |-> 1, severity |-> "suggestion",
                           category |-> "maintainability", comment |-> raw] >>]

\* responseJson.choices.shift()?.message?.content || '': text that is not
\* JSON, the empty text, the JSON text "null", or a JSON object with or
\* without overall_review and with some file_reviews
ObjectReviews ==
    { MissingReviews, NotArrayReviews(0), NotArrayReviews(3), ArrayOf(<< >>),
      ArrayOf(<< FileReviewOf("f1", << LineCommentOf(1, "error") >>) >>),
      ArrayOf(<< FileReviewOf("f1", << LineCommentOf(1, "warning"),
                                       LineCommentOf(2, "suggestion") >>),
                 FileReviewOf("f2", << >>) >>) }

Contents ==
    { [kind |-> k, overall |-> FALSE, reviews |-> MissingReviews] :
          k \in {"text", "empty", "null"} }
    \cup { [kind |-> "object", overall |-> o, reviews |-> r] :
              o \in BOOLEAN, r \in ObjectReviews }

NoContent == [kind |-> "none", overall |-> FALSE, reviews |-> MissingReviews]

NoReview == [overall_review |-> UndefinedOverall, file_reviews |-> MissingReviews]

\* getStructuredOpenAiReview with the parse error thrown on instead of the
\* fallback
getStructuredOpenAiReviewParseThrows(c) ==
    IF c.kind \in {"text", "empty", "null"}
    THEN [threw |-> TRUE, value |-> NoReview]
    ELSE [threw |-> FALSE,
          value |-> [overall_review |->
                         IF c.overall THEN GivenOverall
                         ELSE AddedOverall(fileReviewsLength(c.reviews)),
                     file_reviews |->
                         IF c.reviews.is = "array" THEN c.reviews ELSE ArrayOf(<< >>)]]

\* getStructuredOpenAiReview without the two defaults of the validation:
\* the parsed object is returned as it is
getStructuredOpenAiReviewNoDefaults(c) ==
    IF c.kind \in {"text", "empty"}
    THEN [threw |-> FALSE,
          value |-> [overall_review |-> FallbackOverall,
                     file_reviews |-> ArrayOf(<< FallbackFileReview(
                         IF c.kind = "empty" THEN "No response received"
                         ELSE "raw") >>)]]
    ELSE IF c.kind = "null"
    THEN [threw |-> TRUE, value |-> NoReview]
    ELSE [threw |-> FALSE,
          value |-> [overall_review |->
                         IF c.overall THEN GivenOverall ELSE UndefinedOverall,
                     file_reviews |-> c.reviews]]

\* getStructuredOpenAiReview from the response content on: JSON.parse, the
\* fallback of its catch, the two defaults of the validation.  Text that
\* is not JSON and the empty text fail to parse; "null" parses, and reading
\* overall_review of null throws, which the outer catch rethrows.
getStructuredOpenAiReview(c) ==
    IF c.kind \in {"text", "empty"}
    THEN [threw |-> FALSE,
          value |-> [overall_review |-> FallbackOverall,
                     file_reviews |-> ArrayOf(<< FallbackFileReview(
                         IF c.kind = "empty" THEN "No response received"
                         ELSE "raw") >>)]]
    ELSE IF c.kind = "null"
    THEN [threw |-> TRUE, value |-> NoReview]
    ELSE [threw |-> FALSE,
          value |-> [overall_review |->
                         IF c.overall THEN GivenOverall
                         ELSE AddedOverall(fileReviewsLength(c.reviews)),
                     file_reviews |->
                         IF c.reviews.is = "array" THEN c.reviews ELSE ArrayOf(<< >>)]]

\* ------------------------------------ the catch of addStructuredCommentToPr

\* nothing thrown in the try block, addCommentToPr not called
NoFallback == [threw |-> FALSE, calls |-> 0]

\* the catch that only logs the error
catchFallbackLogsOnly(fb) ==
    [pc |-> "returned", fallback |-> [threw |-> TRUE, calls |-> fb.calls]]

\* catch (error) { ...; await this.addCommentToPr(); }: addCommentToPr is
\* called and issues getBranchDiff
catchFallback(fb) ==
    [pc |-> "regular.diff", fallback |-> [threw |-> TRUE, calls |-> fb.calls + 1]]

\* ------------------------------------------------------------ run inputs

\* most changed files in a pull request
MaxFiles == 3

\* most interval callbacks awaiting createReviewComments at one time
MaxInFlight == 2

\* most createReviewComments invocations of interval callbacks that throw
MaxThrows == 1

\* values of the max_tokens input (0: absent)
MaxTokensInputs == {0, 6, 7, 128001}

\* encode(file.patch).length of a file that has a patch
TokenCounts == {1, 2, 3, 4}

\* a changed file: its patch is absent or empty (hasPatch FALSE; its tokens
\* are then not counted) or has tokens
FileAt(k) ==
    { [filename |-> k, hasPatch |-> FALSE, tokens |-> 0] }
    \cup { [filename |-> k, hasPatch |-> TRUE, tokens |-> t] : t \in TokenCounts }

FileLists ==
    UNION { { fs \in [1..n -> UNION { FileAt(k) : k \in 1..n }] :
                \A k \in 1..n : fs[k].filename = k } : n \in 0..MaxFiles }

Modes == {"structured", "regular"}

VARIABLES
    patch,          \* the lines of file.patch
    scanned,        \* getValidCommentLines has returned
    scan,           \* its result and the record of its run
    patchInfo,      \* << >>, or what parsePatchForChanges returned
    maxTokens,      \* MAX_TOKENS
    showSkipped,    \* SHOW_SKIPPED_FILES_COMMENT
    filesDefined,   \* branchDiff.files is not undefined
    files,          \* branchDiff.files
    pc,             \* where the public method called is, at its awaits
    allPatches,     \* addStructuredCommentToPr: the files included
    patchesList,    \* addCommentToPr: the files included
    filesTooLong,   \* filesTooLongToBeChecked of the method running
    batches,        \* listOfFilesByTokenRange
    requestCount,   \* the batch cursor of the interval callback
    timer,          \* the interval: "unset", "active", "cleared" or,
                    \* the process having ended, "exited"
    inFlight,       \* per batch index, the callbacks awaiting createReviewComments
    dispatched,     \* per batch index, the createReviewComments invocations
    requested,      \* per mode, the filenames sent in generation requests
    rejected,       \* per mode, the filenames put in filesTooLongToBeChecked
    gated,          \* the modes whose loop over the files has run
    notices,        \* the createSkippedFilesComment invocations
    throws,         \* the invocations of interval callbacks that threw
    content,        \* the content of the structured response received
    review,         \* what getStructuredOpenAiReview returned
    fallback,       \* whether the try block of addStructuredCommentToPr
                    \* threw, and the calls of addCommentToPr from its catch
    reviewFiles,    \* createReviewComments: the filenames of its batch
    fileIdx,        \* the file its loop is at (from 1)
    reviewPc,       \* where the call is, at its awaits
    candPos,        \* tryCreateLineComment: the candidate being attempted
    attempts,       \* the posting attempts made for the file, in order
    outcomes,       \* per file of the batch, how its iteration ended
    commentPc,      \* createStructuredReviewComments: where the call is
    reviewAt,       \* the file review its outer loop is at (from 1)
    commentAt,      \* the line comment its inner loop is at (from 1)
    posts           \* the posting attempts it made, in order

scanVars == << patch, scanned, scan, patchInfo >>

runVars == << maxTokens, showSkipped, filesDefined, files, pc, allPatches, patchesList,
              filesTooLong, batches, requestCount, timer, inFlight,
              dispatched, requested, rejected, gated, notices, throws,
              content, review, fallback >>

reviewVars == << reviewFiles, fileIdx, reviewPc, candPos, attempts, outcomes >>

commentVars == << commentPc, reviewAt, commentAt, posts >>

vars == << scanVars, runVars, reviewVars, commentVars >>

\* the scanner at rest
ScanIdle ==
    /\ patch = << EmptyLine >>
    /\ scanned = FALSE
    /\ scan = NoScan
    /\ patchInfo = << >>

\* no run
RunIdle ==
    /\ maxTokens = DEFAULT_MAX_TOKENS
    /\ showSkipped = TRUE
    /\ filesDefined = TRUE
    /\ files = << >>
    /\ pc = "idle"
    /\ allPatches = << >>
    /\ patchesList = << >>
    /\ filesTooLong = << >>
    /\ batches = << >>
    /\ requestCount = 0
    /\ timer = "unset"
    /\ inFlight = << >>
    /\ dispatched = << >>
    /\ requested = [m \in Modes |-> {}]
    /\ rejected = [m \in Modes |-> {}]
    /\ gated = {}
    /\ notices = << >>
    /\ throws = 0
    /\ content = NoContent
    /\ review = NoReview
    /\ fallback = NoFallback

\* no createReviewComments call
ReviewIdle ==
    /\ reviewFiles = << >>
    /\ fileIdx = 0
    /\ reviewPc = "idle"
    /\ candPos = 0
    /\ attempts = << >>
    /\ outcomes = << >>

\* no createStructuredReviewComments call
CommentsIdle ==
    /\ commentPc = "idle"
    /\ reviewAt = 0
    /\ commentAt = 0
    /\ posts = << >>

\* ------------------------------------------------ parsePatchForChanges

\* the function's locals before its loop
PatchInfoStart ==
    [currentNewLineNumber |-> 1, firstChangedLine |-> 1, hasChanges |-> FALSE,
     addedLines |-> << >>, modifiedLines |-> << >>]

\* "if (!hasChanges) { firstChangedLine = currentNewLineNumber; hasChanges = true }"
noteChange(st) ==
    IF st.hasChanges THEN st
    ELSE [st EXCEPT !.firstChangedLine = st.currentNewLineNumber,
                    !.hasChanges = TRUE]

\* the inner loop from lines[j] (1-based) on
RECURSIVE parseInner(_, _, _)
parseInner(lines, j, st) ==
    IF j > Len(lines) THEN st
    ELSE LET patchLine == lines[j] IN
         IF startsWith(patchLine, <<"@", "@">>) THEN st
         ELSE IF isFileHeader(patchLine) THEN parseInner(lines, j + 1, st)
         ELSE IF startsWith(patchLine, <<"+">>)
         THEN parseInner(lines, j + 1,
                  [noteChange(st) EXCEPT
                      !.addedLines = Append(@, st.currentNewLineNumber),
                      !.currentNewLineNumber = @ + 1])
         ELSE IF startsWith(patchLine, <<"-">>)
         THEN IF j + 1 <= Len(lines) /\ startsWith(lines[j + 1], <<"+">>)
              THEN parseInner(lines, j + 1,
                       [noteChange(st) EXCEPT
                           !.modifiedLines = Append(@, st.currentNewLineNumber)])
              ELSE parseInner(lines, j + 1, st)
         ELSE IF startsWith(patchLine, <<" ">>) \/ patchLine = << >>
         THEN parseInner(lines, j + 1, [st EXCEPT !.currentNewLineNumber = @ + 1])
         ELSE parseInner(lines, j + 1, st)

RECURSIVE parseOuter(_, _, _)

\* parseSection without the break after the first section: the outer loop
\* goes on to the later headers
parseSectionGoesOn(lines, i, st) ==
    parseOuter(lines, i + 1,
        parseInner(lines, i + 1,
            [st EXCEPT !.currentNewLineNumber =
                           parseInt(lineHeaderRegExp(lines[i])[1])]))

\* the header at lines[i]: the counter is set to its newStart, the inner
\* loop runs, and "break; // Process only the first patch section for now"
parseSection(lines, i, st) ==
    parseInner(lines, i + 1,
        [st EXCEPT !.currentNewLineNumber =
                       parseInt(lineHeaderRegExp(lines[i])[1])])

\* the outer loop from lines[i] on
parseOuter(lines, i, st) ==
    IF i > Len(lines) THEN st
    ELSE IF lineHeaderRegExp(lines[i]) # << >>
    THEN parseSection(lines, i, st)
    ELSE parseOuter(lines, i + 1, st)

parsePatchForChanges(lines) ==
    LET st == parseOuter(lines, 1, PatchInfoStart) IN
    [firstChangedLine |-> IF st.hasChanges THEN st.firstChangedLine
                          ELSE st.currentNewLineNumber,
     hasChanges |-> st.hasChanges,
     addedLines |-> st.addedLines,
     modifiedLines |-> st.modifiedLines]

\* ------------------------------------------------------------ the scanner

InitParser ==
    /\ patch \in Patches
    /\ scanned = FALSE
    /\ scan = NoScan
    /\ patchInfo = << >>
    /\ RunIdle
    /\ ReviewIdle
    /\ CommentsIdle

\* const validLines = this.getValidCommentLines(file.patch)
Scan ==
    /\ ~scanned
    /\ scanned' = TRUE
    /\ scan' = scanPatch(patch)
    /\ UNCHANGED << patch, patchInfo, runVars, reviewVars, commentVars >>

NextParser == Scan

SpecParser == InitParser /\ [][NextParser]_vars

\* const patchInfo = parsePatchForChanges(file.patch)
ParseChanges ==
    /\ patchInfo = << >>
    /\ patchInfo' = << parsePatchForChanges(patch) >>
    /\ UNCHANGED << patch, scanned, scan, runVars, reviewVars, commentVars >>

NextChanges == ParseChanges

SpecChanges == InitParser /\ [][NextChanges]_vars

\* --------------------------------------------- the scanner, longer patches

\* longest patch, in lines, of the patches with several sections
MaxHunkLines == 6

\* their lines: headers, valid and not, added lines and a file path
HunkLines == { HeaderA, HeaderB, HeaderBad, AddedLine, FilePathLine }

HunkPatches == UNION { [1..n -> HunkLines] : n \in 1..MaxHunkLines }

InitHunks ==
    /\ patch \in HunkPatches
    /\ scanned = FALSE
    /\ scan = NoScan
    /\ patchInfo = << >>
    /\ RunIdle
    /\ ReviewIdle
    /\ CommentsIdle

SpecHunks == InitHunks /\ [][NextParser]_vars

\* ---------------------------------------------------------------- a run

Range(q) == { q[k] : k \in 1..Len(q) }

RECURSIVE sumUpTo(_, _)
sumUpTo(f, n) == IF n < 0 THEN 0 ELSE f[n] + sumUpTo(f, n - 1)

\* the interval callbacks that await createReviewComments
InFlightTotal == sumUpTo(inFlight, Len(batches) - 1)

config == << maxTokens, showSkipped, filesDefined, files >>

\* index.ts calls addStructuredCommentToPr; addCommentToPr is public too.
\* The method called has issued getBranchDiff and awaits it.
Init ==
    /\ ScanIdle
    /\ maxTokens \in { maxTokensOf(x) : x \in MaxTokensInputs }
    /\ showSkipped \in BOOLEAN
    /\ filesDefined \in BOOLEAN
    /\ files \in (IF filesDefined THEN FileLists ELSE { << >> })
    /\ pc \in {"structured.diff", "regular.diff"}
    /\ allPatches = << >>
    /\ patchesList = << >>
    /\ filesTooLong = << >>
    /\ batches = << >>
    /\ requestCount = 0
    /\ timer = "unset"
    /\ inFlight = << >>
    /\ dispatched = << >>
    /\ requested = [m \in Modes |-> {}]
    /\ rejected = [m \in Modes |-> {}]
    /\ gated = {}
    /\ notices = << >>
    /\ throws = 0
    /\ content = NoContent
    /\ review = NoReview
    /\ fallback = NoFallback
    /\ ReviewIdle
    /\ CommentsIdle

\* getOpenAiSuggestions and getStructuredOpenAiReview, before the request
\* is built: "if (MAX_TOKENS < 1 || MAX_TOKENS > 128000) throw"
invalidMaxTokens(m) == m < 1 \/ m > 128000

\* addStructuredCommentToPr from "if (allPatches.length === 0)" to the await
\* of getStructuredOpenAiReview(combinedPatches), which sends the request,
\* or throws on MAX_TOKENS before it sends, and then the catch block calls
\* addCommentToPr
structuredGoOn(included) ==
    IF included = << >>
    THEN pc' = "returned" /\ UNCHANGED << requested, fallback >>
    ELSE IF invalidMaxTokens(maxTokens)
    THEN /\ pc' = catchFallback(fallback).pc
         /\ fallback' = catchFallback(fallback).fallback
         /\ UNCHANGED requested
    ELSE /\ pc' = "structured.review"
         /\ requested' = [requested EXCEPT
                            !["structured"] = @ \cup Range(namesOf(included))]
         /\ UNCHANGED fallback

\* regularGoOn that starts createReviewComments on every batch at once
regularGoOnAll(included) ==
    IF included = << >>
    THEN pc' = "returned" /\ UNCHANGED << batches, dispatched, inFlight, requested >>
    ELSE LET bs == divideFilesByTokenRange(maxTokens, included) IN
         /\ batches' = bs
         /\ dispatched' = [b \in 0..(Len(bs) - 1) |-> 1]
         /\ inFlight' = [b \in 0..(Len(bs) - 1) |-> 0]
         /\ IF invalidMaxTokens(maxTokens)
            THEN pc' = "threw" /\ UNCHANGED requested
            ELSE /\ requested' = [requested EXCEPT
                                    !["regular"] = @ \cup Range(namesOf(included))]
                 /\ pc' = "regular.first"

\* regularGoOn without "if (patchesList.length === 0) return": with no
\* batch, createReviewComments is called with listOfFilesByTokenRange[0]
regularGoOnUnguarded(included) ==
    LET bs == divideFilesByTokenRange(maxTokens, included) IN
    /\ batches' = bs
    /\ dispatched' = [b \in 0..(IF bs = << >> THEN 0 ELSE Len(bs) - 1)
                         |-> IF b = 0 THEN 1 ELSE 0]
    /\ inFlight' = [b \in 0..(IF bs = << >> THEN 0 ELSE Len(bs) - 1) |-> 0]
    /\ IF bs # << >> /\ invalidMaxTokens(maxTokens)
       THEN pc' = "threw" /\ UNCHANGED requested
       ELSE /\ requested' = [requested EXCEPT
                               !["regular"] = @ \cup (IF bs = << >> THEN {}
                                                      ELSE Range(namesOf(bs[1])))]
            /\ pc' = "regular.first"

\* addCommentToPr from "if (patchesList.length === 0)" to the await of
\* createReviewComments(listOfFilesByTokenRange[0]), which sends the first
\* batch to the generation backend, or throws on MAX_TOKENS before it sends
regularGoOn(included) ==
    IF included = << >>
    THEN pc' = "returned" /\ UNCHANGED << batches, dispatched, inFlight, requested >>
    ELSE LET bs == divideFilesByTokenRange(maxTokens, included) IN
         /\ batches' = bs
         /\ dispatched' = [b \in 0..(Len(bs) - 1) |-> IF b = 0 THEN 1 ELSE 0]
         /\ inFlight' = [b \in 0..(Len(bs) - 1) |-> 0]
         /\ IF invalidMaxTokens(maxTokens)
            THEN pc' = "threw" /\ UNCHANGED requested
            ELSE /\ requested' = [requested EXCEPT
                                    !["regular"] = @ \cup Range(namesOf(bs[1]))]
                 /\ pc' = "regular.first"

\* addStructuredCommentToPr: "if (!files) throw"
StructuredNoFiles ==
    /\ pc = "structured.diff"
    /\ ~filesDefined
    /\ pc' = "threw"
    /\ UNCHANGED << scanVars, reviewVars, commentVars, config, fallback, gated, allPatches, patchesList, filesTooLong,
                    batches, requestCount, timer, inFlight, dispatched,
                    requested, rejected, notices, throws,
                    content, review >>

\* addStructuredCommentToPr from the diff's arrival to its next await: the
\* gate, then the notice or what follows it
StructuredDiff ==
    /\ pc = "structured.diff"
    /\ filesDefined
    /\ LET g == gateStructured(files, maxTokens) IN
       /\ allPatches' = g.allPatches
       /\ filesTooLong' = g.filesTooLongToBeChecked
       /\ rejected' = [rejected EXCEPT
                         !["structured"] = Range(g.filesTooLongToBeChecked)]
       /\ gated' = gated \cup {"structured"}
       /\ IF surfacesNotice(g.filesTooLongToBeChecked, showSkipped)
          THEN /\ notices' = Append(notices, [by |-> "structured",
                                              files |-> g.filesTooLongToBeChecked,
                                              tokenLimit |-> statedTokenLimit(maxTokens),
                                              sent |-> requested])
               /\ pc' = "structured.notice"
               /\ UNCHANGED << requested, fallback >>
          ELSE /\ UNCHANGED notices
               /\ structuredGoOn(g.allPatches)
    /\ UNCHANGED << scanVars, reviewVars, commentVars, config, patchesList, batches, requestCount,
                    timer, inFlight, dispatched, throws,
                    content, review >>

\* createSkippedFilesComment has returned (it catches a failed post)
StructuredNoticeDone ==
    /\ pc = "structured.notice"
    /\ structuredGoOn(allPatches)
    /\ UNCHANGED << scanVars, reviewVars, commentVars, config, gated, allPatches, patchesList, filesTooLong,
                    batches, requestCount, timer, inFlight, dispatched,
                    rejected, notices, throws,
                    content, review >>

\* the backend's response has arrived with status ok:
\* getStructuredOpenAiReview returns a review, which
\* createStructuredReviewComments is called with, or throws, and the catch
\* calls addCommentToPr
StructuredResponse ==
    /\ pc = "structured.review"
    /\ \E c \in Contents :
          LET r == getStructuredOpenAiReview(c) IN
          /\ IF r.threw
             THEN /\ pc' = catchFallback(fallback).pc
                  /\ fallback' = catchFallback(fallback).fallback
                  /\ UNCHANGED << content, review >>
             ELSE /\ pc' = "structured.comments"
                  /\ content' = c
                  /\ review' = r.value
                  /\ UNCHANGED fallback
    /\ UNCHANGED << scanVars, reviewVars, commentVars, config, gated, allPatches, patchesList,
                    filesTooLong, batches, requestCount, timer, inFlight,
                    dispatched, requested, rejected, notices, throws >>

\* createStructuredReviewComments returned
StructuredReviewDone ==
    /\ pc = "structured.comments"
    /\ pc' = "returned"
    /\ UNCHANGED << scanVars, reviewVars, commentVars, config, fallback, gated, allPatches, patchesList, filesTooLong,
                    batches, requestCount, timer, inFlight, dispatched,
                    requested, rejected, notices, throws, content, review >>

\* the request failed, or createStructuredReviewComments threw (its
\* getLastCommit): the catch calls addCommentToPr, which issues
\* getBranchDiff again; structuredReview was local to the try block
StructuredReviewThrows ==
    /\ pc \in {"structured.review", "structured.comments"}
    /\ pc' = catchFallback(fallback).pc
    /\ fallback' = catchFallback(fallback).fallback
    /\ content' = NoContent
    /\ review' = NoReview
    /\ UNCHANGED << scanVars, reviewVars, commentVars, config, gated, allPatches, patchesList, filesTooLong,
                    batches, requestCount, timer, inFlight, dispatched,
                    requested, rejected, notices, throws >>

\* addCommentToPr: "if (!files) throw"
RegularNoFiles ==
    /\ pc = "regular.diff"
    /\ ~filesDefined
    /\ pc' = "threw"
    /\ UNCHANGED << scanVars, reviewVars, commentVars, config, fallback, gated, allPatches, patchesList, filesTooLong,
                    batches, requestCount, timer, inFlight, dispatched,
                    requested, rejected, notices, throws,
                    content, review >>

\* addCommentToPr from the diff's arrival to its next await
RegularDiff ==
    /\ pc = "regular.diff"
    /\ filesDefined
    /\ LET g == gateRegular(files, maxTokens) IN
       /\ patchesList' = g.patchesList
       /\ filesTooLong' = g.filesTooLongToBeChecked
       /\ rejected' = [rejected EXCEPT
                         !["regular"] = Range(g.filesTooLongToBeChecked)]
       /\ gated' = gated \cup {"regular"}
       /\ IF surfacesNotice(g.filesTooLongToBeChecked, showSkipped)
          THEN /\ notices' = Append(notices, [by |-> "regular",
                                              files |-> g.filesTooLongToBeChecked,
                                              tokenLimit |-> statedTokenLimit(maxTokens),
                                              sent |-> requested])
               /\ pc' = "regular.notice"
               /\ UNCHANGED << batches, dispatched, inFlight, requested >>
          ELSE /\ UNCHANGED notices
               /\ regularGoOn(g.patchesList)
    /\ UNCHANGED << scanVars, reviewVars, commentVars, config, fallback, allPatches, requestCount, timer, throws,
                    content, review >>

\* createSkippedFilesComment has returned
RegularNoticeDone ==
    /\ pc = "regular.notice"
    /\ regularGoOn(patchesList)
    /\ UNCHANGED << scanVars, reviewVars, commentVars, config, fallback, gated, allPatches, patchesList, filesTooLong,
                    requestCount, timer, rejected, notices, throws,
                    content, review >>

\* createReviewComments(listOfFilesByTokenRange[0]) returned: with more than
\* one batch, requestCount = 1 and setInterval; addCommentToPr returns
FirstBatchDone ==
    /\ pc = "regular.first"
    /\ pc' = "returned"
    /\ IF Len(batches) > 1
       THEN requestCount' = 1 /\ timer' = "active"
       ELSE UNCHANGED << requestCount, timer >>
    /\ UNCHANGED << scanVars, reviewVars, commentVars, config, fallback, gated, allPatches, patchesList, filesTooLong,
                    batches, inFlight, dispatched, requested, rejected,
                    notices, throws,
                    content, review >>

\* createReviewComments(listOfFilesByTokenRange[0]) threw
FirstBatchThrows ==
    /\ pc = "regular.first"
    /\ pc' = "threw"
    /\ UNCHANGED << scanVars, reviewVars, commentVars, config, fallback, gated, allPatches, patchesList, filesTooLong,
                    batches, requestCount, timer, inFlight, dispatched,
                    requested, rejected, notices, throws,
                    content, review >>

\* the interval fires and the cursor is past the last batch: clearInterval
TickClear ==
    /\ timer = "active"
    /\ requestCount >= Len(batches)
    /\ timer' = "cleared"
    /\ UNCHANGED << scanVars, reviewVars, commentVars, config, fallback, gated, pc, allPatches, patchesList,
                    filesTooLong, batches, requestCount, inFlight,
                    dispatched, requested, rejected, notices, throws,
                    content, review >>

\* the interval fires, whether or not an earlier callback still awaits: the
\* callback reads the cursor and calls createReviewComments on that batch
TickDispatch ==
    /\ timer = "active"
    /\ requestCount < Len(batches)
    /\ InFlightTotal < MaxInFlight
    /\ inFlight' = [inFlight EXCEPT ![requestCount] = @ + 1]
    /\ dispatched' = [dispatched EXCEPT ![requestCount] = @ + 1]
    /\ requested' = [requested EXCEPT
                       !["regular"] = @ \cup Range(namesOf(batches[requestCount + 1]))]
    /\ UNCHANGED << scanVars, reviewVars, commentVars, config, fallback, gated, pc, allPatches, patchesList,
                    filesTooLong, batches, requestCount, timer, rejected,
                    notices, throws,
                    content, review >>

\* a callback's createReviewComments returned: requestCount += 1
CallbackDone ==
    /\ \E b \in DOMAIN inFlight :
          /\ inFlight[b] > 0
          /\ inFlight' = [inFlight EXCEPT ![b] = @ - 1]
    /\ requestCount' = requestCount + 1
    /\ UNCHANGED << scanVars, reviewVars, commentVars, config, fallback, gated, pc, allPatches, patchesList,
                    filesTooLong, batches, timer, dispatched, requested,
                    rejected, notices, throws,
                    content, review >>

\* a callback's createReviewComments threw: the callback's promise rejects
\* and the cursor stays
CallbackThrows ==
    /\ throws < MaxThrows
    /\ \E b \in DOMAIN inFlight :
          /\ inFlight[b] > 0
          /\ inFlight' = [inFlight EXCEPT ![b] = @ - 1]
    /\ throws' = throws + 1
    /\ UNCHANGED << scanVars, reviewVars, commentVars, config, fallback, gated, pc, allPatches, patchesList,
                    filesTooLong, batches, requestCount, timer, dispatched,
                    requested, rejected, notices,
                    content, review >>

\* a callback's createReviewComments threw and nothing handles the rejected
\* promise of the async callback: a runtime that ends the process on an
\* unhandled rejection stops the interval and every callback with it
CallbackThrowsExits ==
    /\ throws < MaxThrows
    /\ \E b \in DOMAIN inFlight : inFlight[b] > 0
    /\ inFlight' = [b \in DOMAIN inFlight |-> 0]
    /\ timer' = "exited"
    /\ throws' = throws + 1
    /\ UNCHANGED << scanVars, reviewVars, commentVars, config, fallback, gated, pc, allPatches, patchesList,
                    filesTooLong, batches, requestCount, dispatched,
                    requested, rejected, notices,
                    content, review >>

Next ==
    \/ StructuredNoFiles
    \/ StructuredDiff
    \/ StructuredNoticeDone
    \/ StructuredResponse
    \/ StructuredReviewDone
    \/ StructuredReviewThrows
    \/ RegularNoFiles
    \/ RegularDiff
    \/ RegularNoticeDone
    \/ FirstBatchDone
    \/ FirstBatchThrows
    \/ TickClear
    \/ TickDispatch
    \/ CallbackDone
    \/ CallbackThrows
    \/ CallbackThrowsExits

Spec == Init /\ [][Next]_vars

\* --------------------------------- addStructuredCommentToPr, more files

\* most changed files of a pull request reviewed in structured mode
MaxStructuredFiles == 4

\* the files all have a patch
StructuredFileLists ==
    UNION { { fs \in [1..n -> UNION { FileAt(k) : k \in 1..n }] :
                \A k \in 1..n : fs[k].filename = k /\ fs[k].hasPatch }
            : n \in 0..MaxStructuredFiles }

\* index.ts: commentOnPrService.addStructuredCommentToPr()
InitStructured ==
    /\ ScanIdle
    /\ maxTokens \in { maxTokensOf(x) : x \in MaxTokensInputs }
    /\ showSkipped \in BOOLEAN
    /\ filesDefined \in BOOLEAN
    /\ files \in (IF filesDefined THEN StructuredFileLists ELSE { << >> })
    /\ pc = "structured.diff"
    /\ allPatches = << >>
    /\ patchesList = << >>
    /\ filesTooLong = << >>
    /\ batches = << >>
    /\ requestCount = 0
    /\ timer = "unset"
    /\ inFlight = << >>
    /\ dispatched = << >>
    /\ requested = [m \in Modes |-> {}]
    /\ rejected = [m \in Modes |-> {}]
    /\ gated = {}
    /\ notices = << >>
    /\ throws = 0
    /\ content = NoContent
    /\ review = NoReview
    /\ fallback = NoFallback
    /\ ReviewIdle
    /\ CommentsIdle

\* addStructuredCommentToPr up to its return or its call of addCommentToPr
NextStructured ==
    \/ StructuredNoFiles
    \/ StructuredDiff
    \/ StructuredNoticeDone
    \/ StructuredResponse
    \/ StructuredReviewDone
    \/ StructuredReviewThrows

SpecStructured == InitStructured /\ [][NextStructured]_vars

\* the interval fires as long as it is active and an awaited
\* createReviewComments settles
SpecFair ==
    /\ Init
    /\ [][Next]_vars
    /\ WF_vars(TickClear)
    /\ WF_vars(TickDispatch)
    /\ WF_vars(CallbackDone)

\* ------------------------------------- createReviewComments on one batch

\* most files in the batch createReviewComments is called with
MaxBatch == 2

\* longest patch, in lines, of a file of the batch
MaxReviewLines == 4

\* the lines the patches of the batch's files are made of
ReviewLines == { HeaderA, HeaderB, AddedLine, RemovedLine, ContextLine, EmptyLine }

ReviewPatches == UNION { [1..n -> ReviewLines] : n \in 1..MaxReviewLines }

\* validLines.filter(l => l.type === type)
tierLines(validLines, type) == SelectSeq(validLines, LAMBDA l : l.type = type)

\* candidates with the modified lines tried before the added lines
candidatesModifiedFirst(validLines) ==
    tierLines(validLines, "modified") \o tierLines(validLines, "added")
        \o tierLines(validLines, "context")

\* the lines tryCreateLineComment attempts, in the order of its three loops:
\* the added lines, then the modified lines, then the context lines
candidates(validLines) ==
    tierLines(validLines, "added") \o tierLines(validLines, "modified")
        \o tierLines(validLines, "context")

\* firstStep of a caller that takes only added and modified lines as
\* targets
firstStepNeedsChange(validLines) ==
    IF \A k \in 1..Len(validLines) : validLines[k].type = "context"
    THEN [pc |-> "general", pos |-> 0]
    ELSE [pc |-> "line", pos |-> 1]

\* tryCreateLineComment after the scan: with no valid line it awaits
\* createGeneralPRComment, else attemptLineComment on the first candidate
firstStep(validLines) ==
    IF Len(validLines) = 0
    THEN [pc |-> "general", pos |-> 0]
    ELSE [pc |-> "line", pos |-> 1]

\* nextStep without "if (success) return true"
nextStepGoesOn(cands, pos, success) ==
    IF pos < Len(cands)
    THEN [pc |-> "line", pos |-> pos + 1, returns |-> "pending"]
    ELSE [pc |-> "general", pos |-> 0, returns |-> "pending"]

\* nextStep without the general comment after the last rejected line
nextStepNoGeneral(cands, pos, success) ==
    IF success
    THEN [pc |-> "returned", pos |-> 0, returns |-> "true"]
    ELSE IF pos < Len(cands)
    THEN [pc |-> "line", pos |-> pos + 1, returns |-> "pending"]
    ELSE [pc |-> "returned", pos |-> 0, returns |-> "false"]

\* tryCreateLineComment after attemptLineComment returned success for the
\* candidate at pos: return true, or attempt the next line, or, past the last
\* line, createGeneralPRComment
nextStep(cands, pos, success) ==
    IF success
    THEN [pc |-> "returned", pos |-> 0, returns |-> "true"]
    ELSE IF pos < Len(cands)
    THEN [pc |-> "line", pos |-> pos + 1, returns |-> "pending"]
    ELSE [pc |-> "general", pos |-> 0, returns |-> "pending"]

\* afterFile of a loop that a failed placement ends
afterFileStopsOnFailure(idx, n, success) == IF success THEN idx + 1 ELSE n + 1

\* the for loop of createReviewComments after tryCreateLineComment returned
\* success for the file at idx of n: the result is logged ("All comment
\* strategies failed", or "Successfully processed") and the loop goes to the
\* next file either way
afterFile(idx, n, success) == idx + 1

\* the loop over the files after the catch block of createReviewComments:
\* "Don't throw here, continue with other files"
afterCatch(idx, n) == idx + 1

\* createReviewComments has the suggestions and the last commit and is at
\* the top of its loop over the files of the batch
InitReview ==
    /\ ScanIdle
    /\ RunIdle
    /\ CommentsIdle
    /\ reviewFiles \in { [k \in 1..n |-> k] : n \in 1..MaxBatch }
    /\ fileIdx = 1
    /\ reviewPc = "loop"
    /\ candPos = 0
    /\ attempts = << >>
    /\ outcomes = [k \in DOMAIN reviewFiles |-> "pending"]

\* suggestionsByFile.find returns undefined: the file is passed over
NoSuggestionForFile ==
    /\ reviewPc = "loop"
    /\ fileIdx <= Len(reviewFiles)
    /\ outcomes' = [outcomes EXCEPT ![fileIdx] = "skipped"]
    /\ fileIdx' = fileIdx + 1
    /\ UNCHANGED << scanVars, runVars, commentVars, reviewFiles, reviewPc, candPos, attempts >>

\* the post in flight settles with a rejection that is no error of the
\* posting API: a value without a message (null, undefined), or an error
\* whose response.data JSON.stringify cannot serialise.  The catch block of
\* attemptLineComment or of createGeneralPRComment throws on reading it,
\* tryCreateLineComment rejects with neither true nor false, and the catch
\* block of createReviewComments logs "FATAL ERROR" and lets the loop go to
\* the next file; validLines was local to the call.  The client is handed
\* to the service; octokit's own rejections are errors the two catch blocks
\* can log (LineCommentRejected, GeneralCommentRejected).
FatalErrorCaught ==
    /\ reviewPc \in {"line", "general"}
    /\ outcomes' = [outcomes EXCEPT ![fileIdx] = "threw"]
    /\ fileIdx' = afterCatch(fileIdx, Len(reviewFiles))
    /\ reviewPc' = "loop"
    /\ candPos' = 0
    /\ attempts' = << >>
    /\ patch' = << EmptyLine >>
    /\ scanned' = FALSE
    /\ scan' = NoScan
    /\ UNCHANGED << patchInfo, runVars, commentVars, reviewFiles >>

\* tryCreateLineComment is called: it scans the file's patch and awaits
\* createGeneralPRComment when there is no valid line, else
\* attemptLineComment on the first candidate
TryCreateLineComment ==
    /\ reviewPc = "loop"
    /\ fileIdx <= Len(reviewFiles)
    /\ \E p \in ReviewPatches :
          /\ patch' = p
          /\ scanned' = TRUE
          /\ scan' = scanPatch(p)
          /\ reviewPc' = firstStep(getValidCommentLines(p)).pc
          /\ candPos' = firstStep(getValidCommentLines(p)).pos
    /\ UNCHANGED << patchInfo, runVars, commentVars, reviewFiles, fileIdx, attempts, outcomes >>

\* what attemptLineComment on the candidate at candPos leaves behind
LineAttempt(success) ==
    LET cands == candidates(scan.validLines)
        step == nextStep(cands, candPos, success)
    IN  /\ reviewPc = "line"
        /\ attempts' = Append(attempts, [kind |-> "line",
                                         lineNumber |-> cands[candPos].lineNumber,
                                         type |-> cands[candPos].type,
                                         ok |-> success])
        /\ reviewPc' = step.pc
        /\ candPos' = step.pos
        /\ outcomes' = [outcomes EXCEPT ![fileIdx] = step.returns]
        /\ UNCHANGED << scanVars, runVars, commentVars, reviewFiles, fileIdx >>

\* createReviewComment succeeded: attemptLineComment returns true
LineCommentAccepted == LineAttempt(TRUE)

\* createReviewComment threw: attemptLineComment catches and returns false
LineCommentRejected == LineAttempt(FALSE)

\* what createGeneralPRComment leaves behind: tryCreateLineComment returns
\* its result
GeneralAttempt(success) ==
    /\ reviewPc = "general"
    /\ attempts' = Append(attempts, [kind |-> "general", lineNumber |-> 0,
                                     type |-> "general", ok |-> success])
    /\ outcomes' = [outcomes EXCEPT ![fileIdx] = IF success THEN "true" ELSE "false"]
    /\ reviewPc' = "returned"
    /\ UNCHANGED << scanVars, runVars, commentVars, reviewFiles, fileIdx, candPos >>

\* issues.createComment succeeded
GeneralCommentAccepted == GeneralAttempt(TRUE)

\* issues.createComment threw: createGeneralPRComment catches, returns false
GeneralCommentRejected == GeneralAttempt(FALSE)

\* tryCreateLineComment has returned: its result is logged and the loop
\* goes to the next file; validLines was local to the call
FileProcessed ==
    /\ reviewPc = "returned"
    /\ reviewPc' = "loop"
    /\ fileIdx' = afterFile(fileIdx, Len(reviewFiles), outcomes[fileIdx] = "true")
    /\ attempts' = << >>
    /\ patch' = << EmptyLine >>
    /\ scanned' = FALSE
    /\ scan' = NoScan
    /\ UNCHANGED << patchInfo, runVars, commentVars, reviewFiles, candPos, outcomes >>

\* the loop is past the last file: createReviewComments returns
ReviewReturns ==
    /\ reviewPc = "loop"
    /\ fileIdx > Len(reviewFiles)
    /\ reviewPc' = "done"
    /\ UNCHANGED << scanVars, runVars, commentVars, reviewFiles, fileIdx, candPos, attempts,
                    outcomes >>

NextReview ==
    \/ NoSuggestionForFile
    \/ TryCreateLineComment
    \/ LineCommentAccepted
    \/ LineCommentRejected
    \/ GeneralCommentAccepted
    \/ GeneralCommentRejected
    \/ FatalErrorCaught
    \/ FileProcessed
    \/ ReviewReturns

SpecReview == InitReview /\ [][NextReview]_vars

\* --------------------------------------- createStructuredReviewComments

\* most file reviews of a structured review, most line comments of one
MaxFileReviews == 2
MaxLineComments == 2

LineCommentLists ==
    { [k \in 1..n |-> LineCommentOf(k, "warning")] : n \in 0..MaxLineComments }

\* structuredReview.file_reviews: file reviews with and without comments
FileReviewLists ==
    UNION { { frs \in [1..n -> { FileReviewOf(k, lc) :
                                    k \in 1..n, lc \in LineCommentLists }] :
                \A k \in 1..n : frs[k].filename = k }
            : n \in 0..MaxFileReviews }

\* the outer loop from file review f on: a file review without line
\* comments is passed over ("continue"); after the last one comes
\* createOverallReviewComment
RECURSIVE firstCommentFrom(_, _)
firstCommentFrom(frs, f) ==
    IF f > Len(frs) THEN [pc |-> "overall", reviewAt |-> f, commentAt |-> 0]
    ELSE IF Len(frs[f].line_comments) = 0 THEN firstCommentFrom(frs, f + 1)
    ELSE [pc |-> "inline", reviewAt |-> f, commentAt |-> 1]

\* the iteration after line comment c of file review f
nextComment(frs, f, c) ==
    IF c < Len(frs[f].line_comments)
    THEN [pc |-> "inline", reviewAt |-> f, commentAt |-> c + 1]
    ELSE firstCommentFrom(frs, f + 1)

\* pulls.createReviewComment returned, or threw into the catch, which
\* tries createSimplePRComment
afterInline(frs, f, c, ok) ==
    IF ok THEN nextComment(frs, f, c)
    ELSE [pc |-> "fallback", reviewAt |-> f, commentAt |-> c]

\* afterFallback with no inner try: a fallback that fails is thrown out of
\* createStructuredReviewComments
afterFallbackRethrows(frs, f, c, ok) ==
    IF ok THEN nextComment(frs, f, c)
    ELSE [pc |-> "threw", reviewAt |-> f, commentAt |-> c]

\* createSimplePRComment returned, or threw into the inner catch, which
\* logs: the loop goes on either way
afterFallback(frs, f, c, ok) == nextComment(frs, f, c)

\* createStructuredReviewComments(structuredReview) has been called and
\* awaits getLastCommit
InitComments ==
    /\ ScanIdle
    /\ ReviewIdle
    /\ maxTokens = DEFAULT_MAX_TOKENS
    /\ showSkipped = TRUE
    /\ filesDefined = TRUE
    /\ files = << >>
    /\ pc = "structured.comments"
    /\ allPatches = << >>
    /\ patchesList = << >>
    /\ filesTooLong = << >>
    /\ batches = << >>
    /\ requestCount = 0
    /\ timer = "unset"
    /\ inFlight = << >>
    /\ dispatched = << >>
    /\ requested = [m \in Modes |-> {}]
    /\ rejected = [m \in Modes |-> {}]
    /\ gated = {}
    /\ notices = << >>
    /\ throws = 0
    /\ content = NoContent
    /\ review \in { [overall_review |-> GivenOverall, file_reviews |-> ArrayOf(frs)] :
                       frs \in FileReviewLists }
    /\ fallback = NoFallback
    /\ commentPc = "start"
    /\ reviewAt = 0
    /\ commentAt = 0
    /\ posts = << >>

\* getLastCommit returned: the loops start
GetLastCommitDone ==
    /\ commentPc = "start"
    /\ LET n == firstCommentFrom(review.file_reviews.items, 1) IN
       /\ commentPc' = n.pc
       /\ reviewAt' = n.reviewAt
       /\ commentAt' = n.commentAt
    /\ UNCHANGED << scanVars, runVars, reviewVars, posts >>

\* getLastCommit threw: createStructuredReviewComments throws
GetLastCommitThrows ==
    /\ commentPc = "start"
    /\ commentPc' = "threw"
    /\ UNCHANGED << scanVars, runVars, reviewVars, reviewAt, commentAt, posts >>

\* pulls.createReviewComment for the line comment the loops are at
InlinePost(ok) ==
    /\ commentPc = "inline"
    /\ posts' = Append(posts, [kind |-> "inline", file |-> reviewAt,
                                comment |-> commentAt, ok |-> ok])
    /\ LET n == afterInline(review.file_reviews.items, reviewAt, commentAt, ok) IN
       /\ commentPc' = n.pc
       /\ reviewAt' = n.reviewAt
       /\ commentAt' = n.commentAt
    /\ UNCHANGED << scanVars, runVars, reviewVars >>

InlinePosted == InlinePost(TRUE)

InlineRejected == InlinePost(FALSE)

\* createSimplePRComment(fallbackComment) in the catch
FallbackPost(ok) ==
    /\ commentPc = "fallback"
    /\ posts' = Append(posts, [kind |-> "fallback", file |-> reviewAt,
                                comment |-> commentAt, ok |-> ok])
    /\ LET n == afterFallback(review.file_reviews.items, reviewAt, commentAt, ok) IN
       /\ commentPc' = n.pc
       /\ reviewAt' = n.reviewAt
       /\ commentAt' = n.commentAt
    /\ UNCHANGED << scanVars, runVars, reviewVars >>

FallbackPosted == FallbackPost(TRUE)

FallbackRejected == FallbackPost(FALSE)

\* createOverallReviewComment: createSimplePRComment inside its own try;
\* createStructuredReviewComments returns
OverallPost(ok) ==
    /\ commentPc = "overall"
    /\ posts' = Append(posts, [kind |-> "overall", file |-> 0,
                                comment |-> 0, ok |-> ok])
    /\ commentPc' = "returned"
    /\ UNCHANGED << scanVars, runVars, reviewVars, reviewAt, commentAt >>

OverallPosted == OverallPost(TRUE)

OverallRejected == OverallPost(FALSE)

NextComments ==
    \/ GetLastCommitDone
    \/ GetLastCommitThrows
    \/ InlinePosted
    \/ InlineRejected
    \/ FallbackPosted
    \/ FallbackRejected
    \/ OverallPosted
    \/ OverallRejected

SpecComments == InitComments /\ [][NextComments]_vars

\* ------------------------------------------- reading the scanner's result

Emitting == {"added", "modified", "context"}

\* the inner iterations that pushed a record, in order: the k-th pushed
\* validLines[k]
EmitSteps == SelectSeq(scan.steps, LAMBDA s : s.emit \in Emitting)

\* the patch line validLines[k] was pushed for
RecAt(k) == EmitSteps[k].at

\* the records pushed for patch line j
RecordsFrom(j) == { k \in 1..Len(scan.validLines) : RecAt(k) = j }

\* the lines of the patch that are valid hunk headers, and their newStart
HeaderIdx == { h \in 1..Len(patch) : lineHeaderRegExp(patch[h]) # << >> }

NewStart(h) == parseInt(lineHeaderRegExp(patch[h])[1])

\* the body of the hunk whose header is line h: the lines after it up to the
\* next line that starts with '@@' or looks like a file path
SectionBody(h) ==
    { k \in (h + 1)..Len(patch) : \A m \in (h + 1)..k : ~stopsSection(patch[m]) }

\* the header of the hunk a body line j belongs to: the last valid header
\* before it
HeaderBefore(j) ==
    CHOOSE h \in HeaderIdx : h < j /\ \A g \in HeaderIdx : g < j => g <= h

IsAddedLine(l) == startsWith(l, <<"+">>) /\ ~isFileHeader(l)
IsRemovedLine(l) == startsWith(l, <<"-">>) /\ ~isFileHeader(l)
IsContextLine(l) == startsWith(l, <<" ">>)
IsEmptyLine(l) == trimIsEmpty(l) /\ ~startsWith(l, <<" ">>)

\* the body lines of all hunks
BodyLines == UNION { SectionBody(h) : h \in HeaderIdx }

\* the record of the run and the result agree: one record per pushing
\* iteration, with the counter's value and the branch's type
ScanRecordOk ==
    scanned =>
        /\ Len(EmitSteps) = Len(scan.validLines)
        /\ \A k \in 1..Len(EmitSteps) :
              /\ scan.validLines[k].lineNumber = EmitSteps[k].before
              /\ scan.validLines[k].type = EmitSteps[k].emit

\* ------------------------------------------------------------ claims

\* C1 (as claimed): every removed ('-') body line immediately followed by an
\* added ('+') line yields exactly one 'modified' record for that position,
\* and the paired addition yields no 'added' record with the same line
\* number.
C1_ModifiedNotAlsoAdded ==
    scanned =>
        \A j \in BodyLines :
            (/\ IsRemovedLine(patch[j])
             /\ j + 1 <= Len(patch)
             /\ IsAddedLine(patch[j + 1]))
            => /\ Cardinality(RecordsFrom(j)) = 1
               /\ \A k \in RecordsFrom(j) :
                     /\ scan.validLines[k].type = "modified"
                     /\ ~ \E a \in RecordsFrom(j + 1) :
                            /\ scan.validLines[a].type = "added"
                            /\ scan.validLines[a].lineNumber
                                 = scan.validLines[k].lineNumber

\* C5: every hunk of the patch is processed: each body line of each valid
\* header that is an added or a context line has exactly one record, the
\* records come in patch order, and the first body line of a hunk is numbered
\* with that hunk's own newStart.
C5_AllHunksProcessed ==
    scanned =>
        /\ \A h \in HeaderIdx : \A k \in SectionBody(h) :
              (IsAddedLine(patch[k]) \/ IsContextLine(patch[k]))
              => /\ Cardinality(RecordsFrom(k)) = 1
                 /\ (k = h + 1 =>
                       \A r \in RecordsFrom(k) :
                           scan.validLines[r].lineNumber = NewStart(h))
        /\ \A k1, k2 \in 1..Len(scan.validLines) :
              k1 < k2 => RecAt(k1) < RecAt(k2)

\* C5 witness: two hunks both gave records, and the second hunk's first
\* record carries its own newStart, not the value the counter had reached
C5_Witness ==
    /\ scanned
    /\ \E k1, k2 \in 1..Len(scan.validLines) :
          /\ k1 < k2
          /\ HeaderBefore(RecAt(k1)) < HeaderBefore(RecAt(k2))
          /\ scan.validLines[k2].lineNumber = NewStart(HeaderBefore(RecAt(k2)))
          /\ EmitSteps[k1].after # scan.validLines[k2].lineNumber

\* the body lines of hunk h before line j that are added, context or empty
\* lines: those that begin with the added-marker '+', those that begin with
\* a space, and the empty ones
AdvancingBefore(h, j) ==
    { m \in (h + 1)..(j - 1) :
        \/ startsWith(patch[m], <<"+">>)
        \/ IsContextLine(patch[m])
        \/ IsEmptyLine(patch[m]) }

\* C6 (as claimed): the lineNumber of every 'added' or 'context' record is
\* its hunk's newStart plus the number of added, context and empty body
\* lines before it in the hunk; removed lines do not count.
C6_LineNumberIsStartPlusCount ==
    scanned =>
        \A k \in 1..Len(scan.validLines) :
            scan.validLines[k].type \in {"added", "context"}
            => LET j == RecAt(k)
                   h == HeaderBefore(j)
               IN  scan.validLines[k].lineNumber
                     = NewStart(h) + Cardinality(AdvancingBefore(h, j))

\* the inner iterations on an empty body line
EmptySteps ==
    { n \in 1..Len(scan.steps) :
        /\ scan.steps[n].emit \notin {"stop", "skip"}
        /\ IsEmptyLine(patch[scan.steps[n].at]) }

\* C7 (as claimed): an empty body line emits a 'context' record at the
\* current line number and then increments the counter.
C7_EmptyLineEmitsContext ==
    scanned =>
        \A n \in EmptySteps :
            /\ scan.steps[n].after = scan.steps[n].before + 1
            /\ \E k \in RecordsFrom(scan.steps[n].at) :
                  /\ scan.validLines[k].type = "context"
                  /\ scan.validLines[k].lineNumber = scan.steps[n].before

\* C7 (amended): an empty body line emits no record; it only increments the
\* counter by one, so a record pushed for the line after it is numbered one
\* higher.
C7_EmptyLineOnlyIncrements ==
    scanned =>
        \A n \in EmptySteps :
            /\ scan.steps[n].after = scan.steps[n].before + 1
            /\ RecordsFrom(scan.steps[n].at) = {}
            /\ \A k \in RecordsFrom(scan.steps[n].at + 1) :
                  scan.validLines[k].lineNumber = scan.steps[n].before + 1

\* C7 witness: an empty body line followed, in the same hunk, by a line that
\* has a record
C7_Witness ==
    /\ scanned
    /\ \E n \in EmptySteps : RecordsFrom(scan.steps[n].at + 1) # {}

\* C8: within one hunk the line numbers of the 'context' and 'added' records
\* are strictly increasing in scan order.
C8_StrictlyIncreasingInHunk ==
    scanned =>
        \A k1, k2 \in 1..Len(scan.validLines) :
            (/\ k1 < k2
             /\ scan.validLines[k1].type \in {"added", "context"}
             /\ scan.validLines[k2].type \in {"added", "context"}
             /\ HeaderBefore(RecAt(k1)) = HeaderBefore(RecAt(k2)))
            => scan.validLines[k1].lineNumber < scan.validLines[k2].lineNumber

\* C8 witness: a hunk with three such records and a removed line among them
C8_Witness ==
    /\ scanned
    /\ \E h \in HeaderIdx :
          /\ Cardinality({ k \in 1..Len(scan.validLines) :
                             /\ HeaderBefore(RecAt(k)) = h
                             /\ scan.validLines[k].type \in {"added", "context"} }) >= 2
          /\ \E m \in SectionBody(h) : IsRemovedLine(patch[m])

\* ------------------------------------------------------------ run claims

BatchIdx == DOMAIN dispatched

\* the filenames in the batches
BatchedNames == UNION { Range(namesOf(batches[b + 1])) : b \in BatchIdx }

\* the filenames named in skipped-files notices
NoticedNames == UNION { Range(notices[n].files) : n \in 1..Len(notices) }

\* C2 (as claimed): createReviewComments is invoked at most once for each
\* batch index over a whole run of addCommentToPr.
C2_OneRequestPerBatch ==
    \A b \in BatchIdx : dispatched[b] <= 1

\* C3 (as claimed), in the form a finite run decides: once the interval is
\* cleared, with no invocation still awaited and none having thrown, every
\* batch index has been dispatched.
C3_AllBatchesDispatched ==
    (timer = "cleared" /\ InFlightTotal = 0 /\ throws = 0)
    => \A b \in BatchIdx : dispatched[b] >= 1

\* C4 (as claimed): at most one interval callback is between reading the
\* cursor and advancing it.
C4_SingleCallbackInFlight ==
    InFlightTotal <= 1

\* C9: a changed file is in the eligible list iff its patch is non-empty and
\* its token count is at most the mode's per-file limit (MAX_TOKENS / 2 in
\* addCommentToPr, MAX_TOKENS / 3 in addStructuredCommentToPr); a file whose
\* token count exceeds the limit is in the mode's rejected list and in no
\* batch and no generation request of the mode.
C9_BudgetGate ==
    /\ "regular" \in gated =>
          \A k \in 1..Len(files) :
              LET f == files[k] IN
              /\ (f \in Range(patchesList))
                    <=> (f.hasPatch /\ 2 * f.tokens <= maxTokens)
              /\ 2 * f.tokens > maxTokens
                    => /\ f.filename \in rejected["regular"]
                       /\ f.filename \notin BatchedNames
                       /\ f.filename \notin requested["regular"]
    /\ "structured" \in gated =>
          \A k \in 1..Len(files) :
              LET f == files[k] IN
              /\ (f \in Range(allPatches))
                    <=> (f.hasPatch /\ 3 * f.tokens <= maxTokens)
              /\ 3 * f.tokens > maxTokens
                    => /\ f.filename \in rejected["structured"]
                       /\ f.filename \notin requested["structured"]

\* C9 witness: addCommentToPr has sent its first batch, with a file exactly
\* at the limit in it and a file over the limit rejected
C9_Witness ==
    /\ pc = "regular.first"
    /\ \E k \in 1..Len(files) :
          /\ 2 * files[k].tokens = maxTokens
          /\ files[k].filename \in requested["regular"]
    /\ \E k \in 1..Len(files) :
          /\ 2 * files[k].tokens > maxTokens
          /\ files[k].filename \in rejected["regular"]

\* C10 (as claimed): a changed file whose patch is absent or empty is in no
\* batch, not in the rejected list and not named in the skipped-files
\* notice, in both modes.
C10_NoPatchOmittedSilently ==
    \A k \in 1..Len(files) :
        ~files[k].hasPatch
        => /\ files[k].filename \notin BatchedNames
           /\ \A m \in Modes :
                 /\ files[k].filename \notin requested[m]
                 /\ files[k].filename \notin rejected[m]
           /\ files[k].filename \notin NoticedNames

\* the files of the batches, concatenated in batch order
RECURSIVE flatten(_)
flatten(bs) == IF bs = << >> THEN << >> ELSE bs[1] \o flatten(Tail(bs))

\* the sum of the batches' totals
RECURSIVE sumOfTotals(_)
sumOfTotals(bs) ==
    IF bs = << >> THEN 0 ELSE totalTokens(bs[1]) + sumOfTotals(Tail(bs))

\* C11: every batch handed to createReviewComments by addCommentToPr has a
\* total token count (the sum of tokensUsed of its files) of at most
\* MAX_TOKENS / 2.
C11_BatchWithinBudget ==
    \A b \in BatchIdx :
        dispatched[b] >= 1 => 2 * totalTokens(batches[b + 1]) <= maxTokens

\* C11 witness: a batch of two files whose total is exactly the budget has
\* been handed to createReviewComments by an interval callback
C11_Witness ==
    \E b \in BatchIdx :
        /\ b >= 1
        /\ dispatched[b] >= 1
        /\ Len(batches[b + 1]) >= 2
        /\ 2 * totalTokens(batches[b + 1]) = maxTokens

\* C12: the batches are a stable partition of the eligible files: the
\* batches concatenated in order are the eligible list (so each file is in
\* exactly one batch, in input order), and the batches' totals add up to
\* the files' token counts.
C12_StablePartition ==
    batches # << >> =>
        /\ flatten(batches) = patchesList
        /\ sumOfTotals(batches) = totalTokens(patchesList)
        /\ \A k \in 1..Len(patchesList) :
              Cardinality({ b \in 1..Len(batches) :
                              patchesList[k] \in Range(batches[b]) }) = 1

\* C12 witness: three eligible files packed into two batches, a file that
\* did not fit having opened the second
C12_Witness ==
    /\ Len(patchesList) = 3
    /\ Len(batches) = 2
    /\ Len(batches[1]) = 2
    /\ 2 * (totalTokens(batches[1]) + batches[2][1].tokens) > maxTokens

\* -------------------------------------------------------- review claims

\* tryCreateLineComment is running or has just returned for the file at
\* fileIdx
Placing == reviewPc \in {"line", "general", "returned"}

\* the attempts made before the q-th that were for lines of a type
AttemptsBefore(q, type) ==
    { r \in 1..(q - 1) : attempts[r].type = type }

\* before the q-th attempt every line of the type was attempted and rejected
TierExhaustedBefore(q, type) ==
    /\ Cardinality(AttemptsBefore(q, type)) = Len(tierLines(scan.validLines, type))
    /\ \A r \in AttemptsBefore(q, type) : ~attempts[r].ok

LineAttempts == SelectSeq(attempts, LAMBDA a : a.kind = "line")

GeneralAttempts == SelectSeq(attempts, LAMBDA a : a.kind = "general")

\* C13: the tiers are tried in fixed order: a modified line is attempted
\* only after every added line was attempted and rejected, a context line
\* only after every added and modified line was rejected, and the PR-level
\* comment only after every line of the three tiers was rejected (or when
\* there is no record).
C13_TierOrder ==
    Placing =>
        \A q \in 1..Len(attempts) :
            /\ attempts[q].type = "modified" => TierExhaustedBefore(q, "added")
            /\ attempts[q].type = "context"
                  => /\ TierExhaustedBefore(q, "added")
                     /\ TierExhaustedBefore(q, "modified")
            /\ attempts[q].kind = "general"
                  => /\ TierExhaustedBefore(q, "added")
                     /\ TierExhaustedBefore(q, "modified")
                     /\ TierExhaustedBefore(q, "context")

\* C13 witness: a file with lines of all three types, every one rejected in
\* turn, and the PR-level comment attempted last
C13_Witness ==
    /\ reviewPc = "returned"
    /\ Len(attempts) = 4
    /\ attempts[1].type = "added"
    /\ attempts[2].type = "modified"
    /\ attempts[3].type = "context"
    /\ attempts[4].kind = "general"

\* C14: placement stops at the first success: an attempt that succeeded is
\* the last attempt for the file and tryCreateLineComment has returned true,
\* so at most one comment is posted per file per call.
C14_StopsAtFirstSuccess ==
    Placing =>
        /\ \A q \in 1..Len(attempts) :
              attempts[q].ok => /\ q = Len(attempts)
                                /\ reviewPc = "returned"
                                /\ outcomes[fileIdx] = "true"
        /\ Cardinality({ q \in 1..Len(attempts) : attempts[q].ok }) <= 1

\* C14 witness: the second candidate was accepted and a third candidate was
\* left unattempted
C14_Witness ==
    /\ reviewPc = "returned"
    /\ Len(attempts) = 2
    /\ ~attempts[1].ok
    /\ attempts[2].ok
    /\ Len(candidates(scan.validLines)) >= 3

C16_FailuresIsolated ==
    /\ \A k \in DOMAIN outcomes : k < fileIdx => outcomes[k] # "pending"
    /\ reviewPc = "done" => \A k \in DOMAIN outcomes : outcomes[k] # "pending"

\* C16 witness: a file whose every attempt was rejected, the PR-level
\* comment too, is followed by a file that got its comment
C16_Witness ==
    /\ reviewPc = "done"
    /\ Len(reviewFiles) >= 2
    /\ outcomes[1] = "false"
    /\ outcomes[2] = "true"

\* ------------------------------------------------ structured and notices

\* the response content could not be parsed as JSON
Unparsable(c) == c.kind \in {"text", "empty"}

\* a structured result with exactly one file review that holds exactly one
\* line comment, of severity 'suggestion'
IsDefaultResult(v) ==
    /\ v.file_reviews.is = "array"
    /\ Len(v.file_reviews.items) = 1
    /\ Len(v.file_reviews.items[1].line_comments) = 1
    /\ v.file_reviews.items[1].line_comments[1].severity = "suggestion"

\* C17: on a response content that cannot be parsed as JSON,
\* getStructuredOpenAiReview does not throw and returns the default result
\* (one file review with one line comment of severity 'suggestion'), and
\* the run goes on to createStructuredReviewComments with that result.
C17_ParseFailureGivesDefault ==
    /\ \A c \in Contents :
          Unparsable(c) => /\ ~getStructuredOpenAiReview(c).threw
                           /\ IsDefaultResult(getStructuredOpenAiReview(c).value)
    /\ (content # NoContent /\ Unparsable(content))
          => /\ pc \in {"structured.comments", "returned"}
             /\ review = getStructuredOpenAiReview(content).value
             /\ IsDefaultResult(review)

\* C17 witness: the response was text that is not JSON and
\* createStructuredReviewComments has been called with the default result
C17_Witness ==
    /\ pc = "structured.comments"
    /\ content.kind = "text"
    /\ review.overall_review = FallbackOverall
    /\ review.file_reviews.items[1].filename = "unknown"

\* C18 (as claimed): when a run has terminated with an error, no
\* skipped-files notice was posted and no generation request was issued
\* earlier in the run.
C18_FatalOnlyBeforeOutput ==
    pc = "threw" => /\ notices = << >>
                    /\ \A m \in Modes : requested[m] = {}

\* C19 (as claimed): createSkippedFilesComment is invoked at most once in a
\* run, the fallback to addCommentToPr included.
C19_SingleNotice ==
    Len(notices) <= 1

\* C20: with SHOW_SKIPPED_FILES_COMMENT 'false' no skipped-files notice is
\* posted; otherwise a review mode whose rejected list is not empty posts
\* the notice, with that list, before the mode issues a generation request.
C20_NoticeFlag ==
    /\ ~showSkipped => notices = << >>
    /\ showSkipped =>
          \A m \in gated :
              rejected[m] # {}
              => \E n \in 1..Len(notices) :
                    /\ notices[n].by = m
                    /\ Range(notices[n].files) = rejected[m]
                    /\ notices[n].sent[m] = {}

\* C20 witness: the notice was posted and its mode then sent a generation
\* request
C20_Witness ==
    /\ showSkipped
    /\ \E n \in 1..Len(notices) :
          /\ notices[n].sent[notices[n].by] = {}
          /\ requested[notices[n].by] # {}

\* ------------------------------------------------------ placement cases

\* C21: for a file whose records are all of kind 'context' (and that has
\* one), no attempt is labelled added or modified and a context line is
\* attempted before the PR-level comment is.
C21_ContextOnlyFile ==
    (/\ Placing
     /\ Len(scan.validLines) > 0
     /\ \A k \in 1..Len(scan.validLines) : scan.validLines[k].type = "context")
    => /\ \A q \in 1..Len(attempts) : attempts[q].type \notin {"added", "modified"}
       /\ reviewPc # "general" \/ Len(attempts) > 0
       /\ \A q \in 1..Len(attempts) :
             attempts[q].kind = "general"
             => \E r \in 1..(q - 1) : attempts[r].type = "context"

\* C21 witness: a file with context records only, its context lines
\* rejected and the PR-level comment attempted after them
C21_Witness ==
    /\ reviewPc = "returned"
    /\ Len(scan.validLines) >= 2
    /\ \A k \in 1..Len(scan.validLines) : scan.validLines[k].type = "context"
    /\ Len(attempts) = Len(scan.validLines) + 1
    /\ attempts[Len(attempts)].kind = "general"

\* the patch is a valid hunk header and nothing else
HeaderOnly == Len(patch) = 1 /\ lineHeaderRegExp(patch[1]) # << >>

\* C22 (as claimed): for a patch that is a valid hunk header without body
\* lines the record list is empty and the caller then targets the header's
\* newStart line for the comment.
C22_HeaderOnlyTargetsNewStart ==
    (reviewPc = "returned" /\ HeaderOnly)
    => /\ scan.validLines = << >>
       /\ \E q \in 1..Len(attempts) :
             /\ attempts[q].kind = "line"
             /\ attempts[q].lineNumber = NewStart(1)

\* C22 (amended): for a patch that is a valid hunk header without body
\* lines the record list is empty and tryCreateLineComment targets no line:
\* its one attempt is the PR-level comment.
C22_HeaderOnlyGoesGeneral ==
    (Placing /\ HeaderOnly)
    => /\ scan.validLines = << >>
       /\ reviewPc \in {"general", "returned"}
       /\ \A q \in 1..Len(attempts) : attempts[q].kind = "general"
       /\ reviewPc = "returned" => Len(attempts) = 1

\* C22 witness: the patch is "@@ -10,4 +10,4 @@" alone and the PR-level
\* comment was attempted
C22_Witness ==
    /\ reviewPc = "returned"
    /\ HeaderOnly
    /\ NewStart(1) = 10
    /\ Len(attempts) = 1
    /\ attempts[1].kind = "general"

\* ------------------------------------------------- sections of a patch

\* the lines that start with '@@' and fail the numeric header pattern
BadHeaderIdx ==
    { b \in 1..Len(patch) :
        startsWith(patch[b], <<"@", "@">>) /\ lineHeaderRegExp(patch[b]) = << >> }

\* the lines from b up to the next valid header after b (b itself included)
UpToNextHeader(b) ==
    { j \in b..Len(patch) : \A m \in (b + 1)..j : m \notin HeaderIdx }

\* C23: a line that starts with '@@' and fails the numeric pattern ends the
\* hunk it is in; it and the lines between it and the next valid header
\* give no record; and every valid hunk after it is processed: each added
\* or context line of its body has one record, numbered from the hunk's own
\* newStart.
C23_BadHeaderSkipsHunk ==
    scanned =>
        \A b \in BadHeaderIdx :
            /\ \A n \in 1..Len(scan.steps) :
                  scan.steps[n].at = b => scan.steps[n].emit = "stop"
            /\ \A j \in UpToNextHeader(b) : RecordsFrom(j) = {}
            /\ \A h \in HeaderIdx :
                  h > b =>
                    \A k \in SectionBody(h) :
                        (IsAddedLine(patch[k]) \/ IsContextLine(patch[k]))
                        => /\ Cardinality(RecordsFrom(k)) = 1
                           /\ (k = h + 1 =>
                                 \A r \in RecordsFrom(k) :
                                     scan.validLines[r].lineNumber = NewStart(h))

\* C23 witness: a bad header that follows a line with a record, is followed
\* by an added line without record, and then by a valid hunk with a record
C23_Witness ==
    /\ scanned
    /\ \E b \in BadHeaderIdx :
          /\ b > 1 /\ RecordsFrom(b - 1) # {}
          /\ b + 1 \in UpToNextHeader(b) /\ IsAddedLine(patch[b + 1])
          /\ \E h \in HeaderIdx : h > b /\ RecordsFrom(h + 1) # {}

\* the lines at which the inner loop stopped a section for a file path
FilePathStops ==
    { scan.steps[n].at : n \in { m \in 1..Len(scan.steps) :
          /\ scan.steps[m].emit = "stop"
          /\ isFilePathLine(patch[scan.steps[m].at]) } }

\* C24 (as claimed): a bare file-path line met inside a hunk closes the
\* record list: the list returned holds no record of a line after it.
C24_FilePathClosesList ==
    scanned =>
        \A p \in FilePathStops :
            \A k \in 1..Len(scan.validLines) : RecAt(k) < p

\* ------------------------------------------------ the later batches

\* the batch indexes after the first
LaterIdx == { b \in DOMAIN dispatched : b >= 1 }

\* C25: no batch of index >= 1 is dispatched before the first batch's
\* createReviewComments has completed (addCommentToPr has set the interval
\* and returned), and every dispatch of such a batch is a tick of the
\* interval, fired while the interval is active, on the batch at the cursor.
C25_LaterBatchesOnTicks ==
    /\ []((pc # "returned" \/ timer = "unset")
            => \A b \in LaterIdx : dispatched[b] = 0)
    /\ [][\A b \in LaterIdx :
             (b \in DOMAIN dispatched' /\ dispatched'[b] > dispatched[b])
             => /\ TickDispatch
                /\ timer = "active"
                /\ pc = "returned"
                /\ b = requestCount]_vars

\* C25 witness: a later batch was dispatched by a tick
C25_Witness ==
    /\ pc = "returned"
    /\ timer = "active"
    /\ \E b \in LaterIdx : dispatched[b] >= 1 /\ inFlight[b] >= 1

\* C27: no batch is empty; createReviewComments is started on a batch only
\* when at least one file is eligible, and every batch it was started on,
\* the first one and those at the callback's cursor, is a batch of the
\* list: defined and not empty.
C27_NoEmptyBatch ==
    /\ \A b \in 1..Len(batches) : batches[b] # << >>
    /\ pc = "regular.first" => patchesList # << >> /\ Len(batches) >= 1
    /\ \A b \in DOMAIN dispatched :
          dispatched[b] >= 1
          => /\ patchesList # << >>
             /\ b + 1 \in DOMAIN batches
             /\ batches[b + 1] # << >>

\* C27 witness: the last of several batches was dispatched by the callback
\* and the interval was cleared then
C27_Witness ==
    /\ Len(batches) >= 2
    /\ dispatched[Len(batches) - 1] >= 1
    /\ timer = "cleared"

\* C27 witness, second case: no file was eligible and addCommentToPr
\* returned without a dispatch
C27_WitnessNoneEligible ==
    /\ "regular" \in gated
    /\ pc = "returned"
    /\ patchesList = << >>
    /\ files # << >>
    /\ batches = << >>

\* C30 (as claimed): once a createReviewComments started by an interval
\* callback has thrown, every batch is eventually dispatched and the
\* interval is eventually cleared.
C30_ThrowDoesNotStopBatches ==
    (throws > 0) ~> (timer = "cleared" /\ \A b \in BatchIdx : dispatched[b] >= 1)

\* ------------------------------------------------------ added lines

\* C26 (as claimed): every hunk body line that begins with '+' gives exactly
\* one 'added' record and advances the line counter by one, whatever
\* follows the marker.
C26_EveryPlusLineAdded ==
    scanned =>
        \A j \in BodyLines :
            startsWith(patch[j], <<"+">>)
            => /\ Cardinality(RecordsFrom(j)) = 1
               /\ \A k \in RecordsFrom(j) : scan.validLines[k].type = "added"
               /\ \A n \in 1..Len(scan.steps) :
                     scan.steps[n].at = j
                     => scan.steps[n].after = scan.steps[n].before + 1

\* ------------------------------------------------ lines submitted

\* C29 (as claimed): within one call of tryCreateLineComment the line
\* numbers submitted across the added, modified and context tiers are
\* pairwise distinct.
C29_NoLineSubmittedTwice ==
    \A a, b \in 1..Len(LineAttempts) :
        a # b => LineAttempts[a].lineNumber # LineAttempts[b].lineNumber

\* ------------------------------------------------ the first changed line

\* the line numbers parsePatchForChanges returned, of both lists
ChangedLines ==
    Range(patchInfo[1].addedLines) \cup Range(patchInfo[1].modifiedLines)

\* C28: parsePatchForChanges returns hasChanges = true exactly when
\* addedLines or modifiedLines is not empty, and then firstChangedLine is
\* the least of the line numbers of the two lists.
C28_FirstChangedLineIsMin ==
    patchInfo # << >> =>
        /\ patchInfo[1].hasChanges <=> ChangedLines # {}
        /\ patchInfo[1].hasChanges
              => /\ patchInfo[1].firstChangedLine \in ChangedLines
                 /\ \A n \in ChangedLines : patchInfo[1].firstChangedLine <= n

\* C28 witness: a result with an added and a modified line whose first
\* changed line is the section's newStart
C28_Witness ==
    /\ patchInfo # << >>
    /\ patchInfo[1].hasChanges
    /\ Len(patchInfo[1].addedLines) >= 1
    /\ Len(patchInfo[1].modifiedLines) >= 1
    /\ patchInfo[1].firstChangedLine = 1

\* C28 witness, second case: changes only after a second header; they are
\* not looked at and hasChanges is false
C28_WitnessLaterSection ==
    /\ patchInfo # << >>
    /\ ~patchInfo[1].hasChanges
    /\ \E h \in HeaderIdx : \E g \in HeaderIdx :
          h < g /\ g < Len(patch) /\ startsWith(patch[g + 1], <<"+">>)
                /\ ~isFileHeader(patch[g + 1])

\* ------------------------------------------- the structured request

\* C31 (as claimed): in structured mode the files combined into the single
\* generation request have a total token count of at most MAX_TOKENS.
C31_CombinedWithinMaxTokens ==
    pc \in {"structured.review", "structured.comments"}
    => totalTokens(allPatches) <= maxTokens

\* ------------------------------------------- the limit in the notice

\* the per-file limit the gate of a mode applied, as a whole token count:
\* fileTokens <= MAX_TOKENS / 3 in addStructuredCommentToPr and
\* fileTokens <= MAX_TOKENS / 2 in addCommentToPr
GateLimit(m) ==
    IF m = "structured" THEN maxTokens \div 3 ELSE maxTokens \div 2

\* C32 (as claimed): the token limit a skipped-files notice states is the
\* per-file limit the gate applied in the mode that posted the notice.
C32_NoticeStatesGateLimit ==
    \A n \in 1..Len(notices) :
        notices[n].tokenLimit = GateLimit(notices[n].by)

\* ------------------------------------------- the structured result

\* a structured result with a defined overall_review and an array as
\* file_reviews
IsWellFormed(v) ==
    /\ v.overall_review # UndefinedOverall
    /\ v.file_reviews.is = "array"

\* C35: every value getStructuredOpenAiReview returns has a defined
\* overall_review and a file_reviews that is an array, whatever the
\* response content was: a valid object, an object with fields missing,
\* text that does not parse, the empty text; and such a value is what
\* createStructuredReviewComments is called with.
C35_ResultWellFormed ==
    /\ \A c \in Contents :
          ~getStructuredOpenAiReview(c).threw
          => IsWellFormed(getStructuredOpenAiReview(c).value)
    /\ pc = "structured.comments"
          => /\ review = getStructuredOpenAiReview(content).value
             /\ IsWellFormed(review)

\* C35 witness: an object with no overall_review and a file_reviews that is
\* not an array was received, and the result holds the two defaults
C35_Witness ==
    /\ pc = "structured.comments"
    /\ content.kind = "object"
    /\ ~content.overall
    /\ content.reviews = NotArrayReviews(3)
    /\ review.overall_review = AddedOverall(3)
    /\ review.file_reviews = ArrayOf(<< >>)

\* ------------------------------------------- the fallback to addCommentToPr

\* addStructuredCommentToPr is before its catch or has returned
InStructured ==
    pc \in {"structured.diff", "structured.notice", "structured.review",
            "structured.comments"}

\* C34: when the structured generation request or the handling of its
\* result throws, addStructuredCommentToPr calls addCommentToPr exactly
\* once; when the structured review completes without a throw,
\* addCommentToPr is not called: its gate does not run and it sends no
\* generation request.
C34_FallbackExactlyOnce ==
    /\ fallback.calls = (IF fallback.threw THEN 1 ELSE 0)
    /\ fallback.threw => ~InStructured
    /\ "structured" \in gated =>
          /\ "regular" \in gated => fallback.threw
          /\ ~fallback.threw => requested["regular"] = {}
          /\ pc \in {"regular.diff", "regular.notice", "regular.first"}
                => fallback.threw

\* C34 witness: the structured review threw after its request and the one
\* call of addCommentToPr has gated the files and returned
C34_Witness ==
    /\ fallback = [threw |-> TRUE, calls |-> 1]
    /\ gated = {"structured", "regular"}
    /\ requested["structured"] # {}
    /\ pc = "returned"

\* C34 witness, second case: the structured review completed without a
\* throw and addCommentToPr was not called
C34_WitnessNoThrow ==
    /\ pc = "returned"
    /\ content # NoContent
    /\ fallback = NoFallback
    /\ gated = {"structured"}

\* ------------------------------------------- the structured comments

\* the posting attempts of a kind made for line comment c of file review f
PostsOf(kind, f, c) ==
    { k \in 1..Len(posts) :
        posts[k].kind = kind /\ posts[k].file = f /\ posts[k].comment = c }

\* the line comments of the structured review, as pairs
AllLineComments ==
    { fc \in (1..Len(review.file_reviews.items)) \X (1..MaxLineComments + 1) :
        fc[2] <= Len(review.file_reviews.items[fc[1]].line_comments) }

\* C33: in createStructuredReviewComments a line comment whose inline
\* attempt and PR-level fallback both fail does not stop the call: once the
\* loops have started nothing is thrown, every line comment of every file
\* review gets its one inline attempt, and the overall summary comment is
\* attempted exactly once, as the last attempt of the call.
C33_CommentFailuresIsolated ==
    /\ commentPc = "threw" => posts = << >>
    /\ \A k \in PostsOf("overall", 0, 0) :
          /\ k = Len(posts)
          /\ \A fc \in AllLineComments :
                Cardinality(PostsOf("inline", fc[1], fc[2])) = 1
    /\ Cardinality(PostsOf("overall", 0, 0)) <= 1
    /\ commentPc = "returned" => Cardinality(PostsOf("overall", 0, 0)) = 1
    /\ \A fc \in AllLineComments :
          /\ Cardinality(PostsOf("inline", fc[1], fc[2])) <= 1
          /\ Cardinality(PostsOf("fallback", fc[1], fc[2])) <= 1

\* C33 witness: both attempts failed for a line comment, a line comment of
\* a later file review was attempted after that, and the overall comment
\* was attempted last
C33_Witness ==
    /\ commentPc = "returned"
    /\ \E k \in 1..Len(posts) :
          /\ posts[k].kind = "fallback" /\ ~posts[k].ok
          /\ \E j \in (k + 1)..Len(posts) :
                posts[j].kind = "inline" /\ posts[j].file > posts[k].file
    /\ posts[Len(posts)].kind = "overall"

\* ------------------------------------------------------ the two cursors

\* C36: getValidCommentLines terminates: the outer cursor strictly
\* increases from one outer iteration to the next, the reassignment
\* i = j - 1 of the inner loop included, and stays within the patch; and
\* no patch line is visited by the inner loop more than once, so none is
\* classified in more than one hunk.
C36_CursorsAdvance ==
    scanned =>
        /\ \A k \in 1..Len(scan.outer) :
              /\ scan.outer[k] \in 1..Len(patch)
              /\ k > 1 => scan.outer[k - 1] < scan.outer[k]
        /\ Len(scan.outer) <= Len(patch)
        /\ \A a, b \in 1..Len(scan.steps) :
              scan.steps[a].at = scan.steps[b].at => a = b
        /\ \A a \in 1..Len(scan.steps) :
              /\ scan.steps[a].hunk < scan.steps[a].at
              /\ scan.steps[a].at <= Len(patch)

\* C36 witness: the inner loop has moved the outer cursor over the lines of
\* a section, and lines of two hunks were classified
C36_Witness ==
    /\ scanned
    /\ \E k \in 2..Len(scan.outer) : scan.outer[k] > scan.outer[k - 1] + 1
    /\ \E a, b \in 1..Len(scan.steps) :
          /\ scan.steps[a].hunk < scan.steps[b].hunk
          /\ scan.steps[a].emit \in Emitting
          /\ scan.steps[b].emit \in Emitting

====
